---- MODULE Spec2Model ----
(***************************************************************************)
(* A model of the MCP unit of ProteinMCP (src/src/mcp/mcp.py): one MCP     *)
(* object, the directories it can live in, the registration lists of the   *)
(* two CLI tools and the status cache file it reads and writes; of the     *)
(* MCPManager (src/src/mcp/mcp_manager.py) with its two registry files and *)
(* its discovery of units on disk; and of the SkillManager                 *)
(* (src/src/skill/skill_manager.py) with the pmcp and pskill commands.     *)
(***************************************************************************)
EXTENDS Integers, Sequences, FiniteSets, TLC

VARIABLES
    mcp,         \* the MCP object: runtime, url, path, setup_script, setup_commands
    fs,          \* the directories that exist on disk
    registered,  \* registered[c]: the unit's clean name occurs in "<c> mcp list"
    cache,       \* the status cache file: [file, statuses]
    now,         \* the wall clock, in seconds
    last,        \* the last completed call: arguments, result, effects
    manager,     \* the MCPManager: its two registry files and in-memory maps
    call,        \* the last completed call of the manager
    tools,       \* the directories under TOOL_MCPS_DIR and the files they hold
    skill        \* the units a skill requires, and the call that installs them

vars == <<mcp, fs, registered, cache, now, last, manager, call, tools, skill>>

\* ---------------------------------------------------------------- bounds
TickStep == 150
MaxNow == 450
MaxSetupCommands == 2

\* ------------------------------------------------------------- constants
TTL == 300

CLIs == {"claude", "gemini"}
DefaultCli == "claude"
Runtimes == {"python", "node", "uvx", "npx", "binary"}
PackageRuntimes == {"uvx", "npx"}

NOT_INSTALLED == "not_installed"
INSTALLED == "installed"
REGISTERED == "registered"
BOTH == "both"
MCPStatus == {NOT_INSTALLED, INSTALLED, REGISTERED, BOTH}

\* path values: unset, a directory named by the configuration, and the
\* directory PUBLIC_MCPS_DIR / <last segment of url>
NoPath == "unset"
CustomDir == "custom_dir"
PublicDir == "public_dir"
Dirs == {CustomDir, PublicDir}

\* ------------------------------------------------------------ StatusCache
NoEntry == [status |-> "", timestamp |-> 0 - 1]
Absent == ""
BogusStatus == "bogus"
EmptyStatuses == [c \in CLIs |-> NoEntry]
EmptyCache == [file |-> "missing", statuses |-> EmptyStatuses]

\* StatusCache.read_cache().get("statuses", {}): a missing or unparsable file
\* reads as no entries
read_cache(ch) == IF ch.file = "ok" THEN ch.statuses ELSE EmptyStatuses

\* StatusCache.write_cache(statuses): replaces the file
write_cache(statuses) == [file |-> "ok", statuses |-> statuses]

\* faulty variant of cache_get_status: the age of the entry is not looked at
CacheGetNoTTL(ch, key, t) ==
    LET e == read_cache(ch)[key]
    IN  IF e = NoEntry THEN Absent ELSE e.status

\* StatusCache.get_status(key): absent when the file is missing or unparsable,
\* the key is not there, or the entry is older than the TTL
cache_get_status(ch, key, t) ==
    LET e == read_cache(ch)[key]
    IN  IF e = NoEntry \/ t - e.timestamp > TTL THEN Absent ELSE e.status

\* StatusCache.set_status(key, status): upsert with the current timestamp
cache_set_status(ch, key, status, t) ==
    write_cache([read_cache(ch) EXCEPT ![key] = [status |-> status, timestamp |-> t]])

\* faulty variant of invalidate_status_cache: the cli argument is ignored and
\* the key of the default CLI is removed
InvalidateDefaultOnly(ch, cli) ==
    LET statuses == read_cache(ch)
    IN  IF statuses[DefaultCli] # NoEntry
        THEN write_cache([statuses EXCEPT ![DefaultCli] = NoEntry])
        ELSE ch

\* MCP.invalidate_status_cache(cli): the key is "<name>:<cli>"
invalidate_status_cache(ch, cli) ==
    LET statuses == read_cache(ch)
    IN  IF statuses[cli] # NoEntry
        THEN write_cache([statuses EXCEPT ![cli] = NoEntry])
        ELSE ch

\* ------------------------------------------------------- status queries
\* MCP.is_installed: the result and the path it leaves in self.path
is_installed(m, files) ==
    IF m.path # NoPath
    THEN [ret |-> m.path \in files, path |-> m.path]
    ELSE IF m.runtime \in PackageRuntimes
    THEN [ret |-> TRUE, path |-> m.path]
    ELSE IF m.url /\ PublicDir \in files
    THEN [ret |-> TRUE, path |-> PublicDir]
    ELSE [ret |-> FALSE, path |-> m.path]

\* a text is a sequence of characters; MCP._get_clean_name:
\* self.name.replace("/", "_").replace("-", "_")
get_clean_name(name) ==
    [i \in 1..Len(name) |-> IF name[i] \in {"/", "-"} THEN "_" ELSE name[i]]

\* Python's "sub in text" on strings
Contains(sub, text) ==
    \E i \in 0..(Len(text) - Len(sub)) : SubSeq(text, i + 1, i + Len(sub)) = sub

\* the output of "<cli> mcp list": one line for each server, its name first
RECURSIVE ListStdout(_)
ListStdout(entries) ==
    IF entries = <<>> THEN <<>>
    ELSE Head(entries) \o <<":", " ", "x", "\n">> \o ListStdout(Tail(entries))

\* what is_registered finds for each CLI when the list commands print the
\* given servers: "clean_name in result.stdout"
FoundInList(name, entries) ==
    [c \in CLIs |-> Contains(get_clean_name(name), ListStdout(entries))]

\* MCP.is_registered(cli): listOut is how "<cli> mcp list" ended
\* ("ok", "notfound": FileNotFoundError, "timeout": TimeoutExpired)
ListOutcomes == {"ok", "notfound", "timeout"}
is_registered(reg, cli, listOut) == listOut = "ok" /\ reg[cli]

\* faulty variant of Classify: registered without installed reads as installed
ClassifyInstalledFirst(installed, isreg) ==
    IF installed /\ isreg THEN BOTH
    ELSE IF installed THEN INSTALLED
    ELSE IF isreg THEN INSTALLED
    ELSE NOT_INSTALLED

\* MCP.get_status, the if/elif chain over the two booleans
Classify(installed, isreg) ==
    IF installed /\ isreg THEN BOTH
    ELSE IF isreg THEN REGISTERED
    ELSE IF installed THEN INSTALLED
    ELSE NOT_INSTALLED

\* faulty variant of get_status: a cached string is returned without checking
\* that it is a status
GetStatusNoValidation(m, files, reg, ch, t, cli, use_cache, listOut) ==
    LET cached == IF use_cache THEN cache_get_status(ch, cli, t) ELSE Absent
        ins == is_installed(m, files)
        isreg == is_registered(reg, cli, listOut)
        status == Classify(ins.ret, isreg)
    IN  IF cached # Absent
        THEN [ret |-> cached, path |-> m.path, cache |-> ch, computed |-> FALSE,
              inst |-> FALSE, reg |-> FALSE]
        ELSE [ret |-> status, path |-> ins.path,
              cache |-> IF use_cache THEN cache_set_status(ch, cli, status, t) ELSE ch,
              computed |-> TRUE, inst |-> ins.ret, reg |-> isreg]

\* faulty variant of get_status: the computed status is not written to the cache
GetStatusNoWriteBack(m, files, reg, ch, t, cli, use_cache, listOut) ==
    LET cached == IF use_cache THEN cache_get_status(ch, cli, t) ELSE Absent
        ins == is_installed(m, files)
        isreg == is_registered(reg, cli, listOut)
        status == Classify(ins.ret, isreg)
    IN  IF cached # Absent /\ cached \in MCPStatus
        THEN [ret |-> cached, path |-> m.path, cache |-> ch, computed |-> FALSE,
              inst |-> FALSE, reg |-> FALSE]
        ELSE [ret |-> status, path |-> ins.path, cache |-> ch,
              computed |-> TRUE, inst |-> ins.ret, reg |-> isreg]

\* MCP.get_status(cli, use_cache): the status returned, self.path and the cache
\* file afterwards, whether the real check ran and what its two calls returned
get_status(m, files, reg, ch, t, cli, use_cache, listOut) ==
    LET cached == IF use_cache THEN cache_get_status(ch, cli, t) ELSE Absent
        ins == is_installed(m, files)
        isreg == is_registered(reg, cli, listOut)
        status == Classify(ins.ret, isreg)
    IN  IF cached # Absent /\ cached \in MCPStatus
        THEN [ret |-> cached, path |-> m.path, cache |-> ch, computed |-> FALSE,
              inst |-> FALSE, reg |-> FALSE]
        ELSE [ret |-> status, path |-> ins.path,
              cache |-> IF use_cache THEN cache_set_status(ch, cli, status, t) ELSE ch,
              computed |-> TRUE, inst |-> ins.ret, reg |-> isreg]

\* ------------------------------------------------------------------ setup
Min(S) == CHOOSE x \in S : \A y \in S : x <= y

ScriptOutcomes == {"ok", "fail", "timeout"}
\* a setup command: exit code zero, non-zero, TimeoutExpired, or another
\* exception of subprocess.run (the output is no text, the shell cannot start)
CmdOutcomes == {"ok", "fail", "timeout", "error"}
StopOutcomes == {"timeout", "error"}
CloneOutcomes == {"ok", "fail", "nogit", "timeout", "timeout_partial"}
RmtreeOutcomes == {"ok", "error"}

\* an effect is <<kind, index>>; the index numbers the setup commands
Eff(kind) == <<kind, 0>>
NoEffects == <<>>

\* the result of an operation on the unit: what it returned (or that it raised),
\* and self.path, the disk, the CLI listings and the cache file afterwards
Res(ret, raised, path, files, reg, ch, effects) ==
    [ret |-> ret, raised |-> raised, path |-> path, fs |-> files,
     registered |-> reg, cache |-> ch, effects |-> effects]

\* the warning that is printed for a setup command that did not exit zero
Warning(outcome) ==
    CASE outcome = "fail" -> "setup_command_failed"
      [] outcome = "timeout" -> "setup_command_timed_out"
      [] outcome = "error" -> "setup_command_error"

\* the commands of the loop that ran, up to lastRun, each followed by the
\* warning printed for it
RECURSIVE command_effects(_, _, _)
command_effects(env, i, lastRun) ==
    IF i > lastRun
    THEN NoEffects
    ELSE <<<<"setup_command", i>>>>
         \o (IF env.cmds[i] = "ok" THEN NoEffects
             ELSE <<<<Warning(env.cmds[i]), i>>>>)
         \o command_effects(env, i + 1, lastRun)

\* faulty variant of run_setup_commands: a non-zero exit ends the loop
RunSetupCommandsStopOnFail(m, env) ==
    IF m.path = NoPath
    THEN [ret |-> FALSE, effects |-> NoEffects]
    ELSE LET n == m.setup_commands
             stops == {i \in 1..n : env.cmds[i] # "ok"}
             lastRun == IF stops = {} THEN n ELSE Min(stops)
         IN  [ret |-> stops = {}, effects |-> command_effects(env, 1, lastRun)]

\* MCP._run_setup_commands: every command runs in order; a non-zero exit is
\* logged and the loop goes on, a timeout or another exception returns False
\* at once
run_setup_commands(m, env) ==
    IF m.path = NoPath
    THEN [ret |-> FALSE, effects |-> NoEffects]
    ELSE LET n == m.setup_commands
             stops == {i \in 1..n : env.cmds[i] \in StopOutcomes}
             lastRun == IF stops = {} THEN n ELSE Min(stops)
         IN  [ret |-> stops = {}, effects |-> command_effects(env, 1, lastRun)]

\* MCP._run_setup_script: the warning that is printed for a script that did
\* not exit zero
ScriptWarning(outcome) ==
    IF outcome = "timeout" THEN "setup_script_timed_out" ELSE "setup_script_failed"

\* MCP._run_setup with MCP._run_setup_script: the script when it is configured
\* and exists under the path, else (or when it fails) the setup commands
run_setup(m, files, env) ==
    LET scriptThere == m.setup_script /\ m.path # NoPath /\ m.path \in files
                       /\ env.scriptExists
        scriptEff == IF ~scriptThere THEN NoEffects
                     ELSE IF env.script = "ok" THEN <<Eff("setup_script")>>
                     ELSE <<Eff("setup_script"), Eff(ScriptWarning(env.script))>>
    IN  IF scriptThere /\ env.script = "ok"
        THEN [ret |-> TRUE, effects |-> scriptEff]
        ELSE IF m.setup_commands > 0
        THEN LET r == run_setup_commands(m, env)
             IN  [ret |-> r.ret, effects |-> scriptEff \o r.effects]
        ELSE [ret |-> TRUE, effects |-> scriptEff]

\* ---------------------------------------------------------------- install
\* MCP.install from "Clone repository" on: the target directory, the removal of
\* an existing target under force, git clone, then setup
install_clone(m, files, reg, ch, force, env) ==
    LET target == IF m.path # NoPath THEN m.path ELSE PublicDir
        eff0 == IF m.path # NoPath THEN NoEffects ELSE <<Eff("mkdir_public")>>
    IN  IF target \in files /\ ~force
        THEN Res(TRUE, FALSE, target, files, reg, ch, eff0)
        ELSE IF target \in files /\ env.rmtree = "error"
        THEN Res(FALSE, TRUE, m.path, files, reg, ch, eff0 \o <<Eff("rmtree")>>)
        ELSE
        LET files1 == files \ {target}
            eff1 == eff0 \o (IF target \in files THEN <<Eff("rmtree")>> ELSE NoEffects)
                         \o <<Eff("mkdir_parent"), Eff("clone")>>
        IN  IF env.clone = "ok"
            THEN LET files2 == files1 \cup {target}
                     m2 == [m EXCEPT !.path = target]
                     s == run_setup(m2, files2, env)
                 IN  Res(s.ret, FALSE, target, files2, reg,
                         invalidate_status_cache(ch, DefaultCli), eff1 \o s.effects)
            ELSE IF env.clone = "timeout_partial"
            THEN Res(FALSE, FALSE, m.path, files1 \cup {target}, reg, ch, eff1)
            ELSE Res(FALSE, FALSE, m.path, files1, reg, ch, eff1)

\* faulty variant of install: no early return for a unit already installed
InstallAlwaysSetup(m, files, reg, ch, force, env) ==
    LET ch1 == invalidate_status_cache(ch, DefaultCli)
        ins == is_installed(m, files)
        m1 == [m EXCEPT !.path = ins.path]
    IN  IF m1.runtime \in PackageRuntimes
        THEN Res(TRUE, FALSE, m1.path, files, reg,
                 invalidate_status_cache(ch1, DefaultCli), NoEffects)
        ELSE IF m1.path # NoPath /\ m1.path \in files
        THEN LET s == run_setup(m1, files, env)
             IN  Res(s.ret, FALSE, m1.path, files, reg,
                     invalidate_status_cache(ch1, DefaultCli), s.effects)
        ELSE IF ~m1.url
        THEN Res(FALSE, FALSE, m1.path, files, reg, ch1, NoEffects)
        ELSE install_clone(m1, files, reg, ch1, force, env)

\* faulty variant of install: the clone is tried without a url
InstallNoUrlCheck(m, files, reg, ch, force, env) ==
    LET ch1 == invalidate_status_cache(ch, DefaultCli)
        ins == is_installed(m, files)
        m1 == [m EXCEPT !.path = ins.path]
    IN  IF ins.ret /\ ~force
        THEN Res(TRUE, FALSE, m1.path, files, reg, ch1, NoEffects)
        ELSE IF m1.runtime \in PackageRuntimes
        THEN Res(TRUE, FALSE, m1.path, files, reg,
                 invalidate_status_cache(ch1, DefaultCli), NoEffects)
        ELSE IF m1.path # NoPath /\ m1.path \in files
        THEN LET s == run_setup(m1, files, env)
             IN  Res(s.ret, FALSE, m1.path, files, reg,
                     invalidate_status_cache(ch1, DefaultCli), s.effects)
        ELSE install_clone(m1, files, reg, ch1, force, env)

\* MCP.install(force)
install(m, files, reg, ch, force, env) ==
    LET ch1 == invalidate_status_cache(ch, DefaultCli)
        ins == is_installed(m, files)
        m1 == [m EXCEPT !.path = ins.path]
    IN  IF ins.ret /\ ~force
        THEN Res(TRUE, FALSE, m1.path, files, reg, ch1, NoEffects)
        ELSE IF m1.runtime \in PackageRuntimes
        THEN Res(TRUE, FALSE, m1.path, files, reg,
                 invalidate_status_cache(ch1, DefaultCli), NoEffects)
        ELSE IF m1.path # NoPath /\ m1.path \in files
        THEN LET s == run_setup(m1, files, env)
             IN  Res(s.ret, FALSE, m1.path, files, reg,
                     invalidate_status_cache(ch1, DefaultCli), s.effects)
        ELSE IF ~m1.url
        THEN Res(FALSE, FALSE, m1.path, files, reg, ch1, NoEffects)
        ELSE install_clone(m1, files, reg, ch1, force, env)

\* -------------------------------------------------------------- uninstall
\* faulty variant of uninstall: no early return for a package unit
UninstallNoPackageCheck(m, files, reg, ch, remove_files, env) ==
    LET ins == is_installed(m, files)
        m1 == [m EXCEPT !.path = ins.path]
    IN  IF ~ins.ret
        THEN Res(TRUE, FALSE, m1.path, files, reg, ch, NoEffects)
        ELSE IF remove_files /\ m1.path # NoPath
        THEN IF m1.path \in files /\ env.rmtree = "error"
             THEN Res(FALSE, FALSE, m1.path, files, reg, ch, <<Eff("rmtree")>>)
             ELSE Res(TRUE, FALSE, NoPath, files \ {m1.path}, reg,
                      invalidate_status_cache(ch, DefaultCli),
                      IF m1.path \in files THEN <<Eff("rmtree")>> ELSE NoEffects)
        ELSE Res(TRUE, FALSE, m1.path, files, reg, ch, NoEffects)

\* faulty variant of uninstall: the path is kept after the files are removed
UninstallKeepsPath(m, files, reg, ch, remove_files, env) ==
    LET ins == is_installed(m, files)
        m1 == [m EXCEPT !.path = ins.path]
    IN  IF ~ins.ret
        THEN Res(TRUE, FALSE, m1.path, files, reg, ch, NoEffects)
        ELSE IF m1.runtime \in PackageRuntimes
        THEN Res(TRUE, FALSE, NoPath, files, reg,
                 invalidate_status_cache(ch, DefaultCli), NoEffects)
        ELSE IF remove_files /\ m1.path # NoPath
        THEN IF m1.path \in files /\ env.rmtree = "error"
             THEN Res(FALSE, FALSE, m1.path, files, reg, ch, <<Eff("rmtree")>>)
             ELSE Res(TRUE, FALSE, m1.path, files \ {m1.path}, reg,
                      invalidate_status_cache(ch, DefaultCli),
                      IF m1.path \in files THEN <<Eff("rmtree")>> ELSE NoEffects)
        ELSE Res(TRUE, FALSE, m1.path, files, reg, ch, NoEffects)

\* MCP.uninstall(remove_files)
uninstall(m, files, reg, ch, remove_files, env) ==
    LET ins == is_installed(m, files)
        m1 == [m EXCEPT !.path = ins.path]
    IN  IF ~ins.ret
        THEN Res(TRUE, FALSE, m1.path, files, reg, ch, NoEffects)
        ELSE IF m1.runtime \in PackageRuntimes
        THEN Res(TRUE, FALSE, NoPath, files, reg,
                 invalidate_status_cache(ch, DefaultCli), NoEffects)
        ELSE IF remove_files /\ m1.path # NoPath
        THEN IF m1.path \in files /\ env.rmtree = "error"
             THEN Res(FALSE, FALSE, m1.path, files, reg, ch, <<Eff("rmtree")>>)
             ELSE Res(TRUE, FALSE, NoPath, files \ {m1.path}, reg,
                      invalidate_status_cache(ch, DefaultCli),
                      IF m1.path \in files THEN <<Eff("rmtree")>> ELSE NoEffects)
        ELSE Res(TRUE, FALSE, m1.path, files, reg, ch, NoEffects)

\* ---------------------------------------------------- register / unregister
RemoveOutcomes == {"ok", "fail", "timeout", "timeout_done"}
AddOutcomes == {"ok", "fail", "timeout", "timeout_done"}
Responses == {"y", "n", "eof"}

\* "<cli> mcp remove <clean_name>" as the CLI answers it: a name that is not
\* registered cannot be removed
RemoveResult(reg, cli, out) ==
    IF ~reg[cli] /\ out \in {"ok", "timeout_done"} THEN "fail" ELSE out

\* "<cli> mcp add <clean_name> ..." as the CLI answers it: a name that is
\* already registered cannot be added again
AddResult(reg, cli, out) ==
    IF reg[cli] /\ out \in {"ok", "timeout_done"} THEN "fail" ELSE out

\* faulty variant of unregister: the exit code of the remove command is not
\* looked at
UnregisterIgnoresExitCode(m, files, reg, ch, cli, env) ==
    IF ~env.present
    THEN Res(FALSE, FALSE, m.path, files, reg, ch, NoEffects)
    ELSE LET out == RemoveResult(reg, cli, env.remove)
             gone == [reg EXCEPT ![cli] = FALSE]
         IN  IF out \in {"ok", "fail"}
             THEN Res(TRUE, FALSE, m.path, files, IF out = "ok" THEN gone ELSE reg,
                      invalidate_status_cache(ch, cli), <<Eff("remove")>>)
             ELSE IF out = "timeout_done"
             THEN Res(FALSE, FALSE, m.path, files, gone, ch, <<Eff("remove")>>)
             ELSE Res(FALSE, FALSE, m.path, files, reg, ch, <<Eff("remove")>>)

\* faulty variant of unregister: the cache entry is kept after the removal
UnregisterNoInvalidate(m, files, reg, ch, cli, env) ==
    IF ~env.present
    THEN Res(FALSE, FALSE, m.path, files, reg, ch, NoEffects)
    ELSE LET out == RemoveResult(reg, cli, env.remove)
             gone == [reg EXCEPT ![cli] = FALSE]
         IN  IF out = "ok"
             THEN Res(TRUE, FALSE, m.path, files, gone, ch, <<Eff("remove")>>)
             ELSE IF out = "timeout_done"
             THEN Res(FALSE, FALSE, m.path, files, gone, ch, <<Eff("remove")>>)
             ELSE Res(FALSE, FALSE, m.path, files, reg, ch, <<Eff("remove")>>)

\* MCP.unregister(cli)
unregister(m, files, reg, ch, cli, env) ==
    IF ~env.present
    THEN Res(FALSE, FALSE, m.path, files, reg, ch, NoEffects)
    ELSE LET out == RemoveResult(reg, cli, env.remove)
             gone == [reg EXCEPT ![cli] = FALSE]
         IN  IF out = "ok"
             THEN Res(TRUE, FALSE, m.path, files, gone,
                      invalidate_status_cache(ch, cli), <<Eff("remove")>>)
             ELSE IF out = "timeout_done"
             THEN Res(FALSE, FALSE, m.path, files, gone, ch, <<Eff("remove")>>)
             ELSE Res(FALSE, FALSE, m.path, files, reg, ch, <<Eff("remove")>>)

\* MCP._run_register_command(cmd, cli, clean_name)
run_register_command(m, files, reg, ch, cli, env) ==
    LET out == AddResult(reg, cli, env.add)
        added == [reg EXCEPT ![cli] = TRUE]
    IN  IF out = "ok"
        THEN Res(TRUE, FALSE, m.path, files, added,
                 invalidate_status_cache(ch, cli), <<Eff("add")>>)
        ELSE IF out = "timeout_done"
        THEN Res(FALSE, FALSE, m.path, files, added, ch, <<Eff("add")>>)
        ELSE Res(FALSE, FALSE, m.path, files, reg, ch, <<Eff("add")>>)

\* MCP._register_uvx / _register_npx / _register_node / _register_python: the
\* dispatch on the runtime. env.entry: server_command and server_args are both
\* configured, or _find_server_entry finds a file
register_dispatch(m, files, reg, ch, cli, env) ==
    IF m.runtime \in PackageRuntimes
    THEN run_register_command(m, files, reg, ch, cli, env)
    ELSE IF m.path = NoPath
    THEN Res(FALSE, FALSE, m.path, files, reg, ch, NoEffects)
    ELSE IF m.runtime # "node" /\ ~env.entry
    THEN Res(FALSE, FALSE, m.path, files, reg, ch, NoEffects)
    ELSE run_register_command(m, files, reg, ch, cli, env)

\* faulty variant of register: the CLI binary is not looked for
RegisterNoWhich(m, files, reg, ch, cli, env) ==
    IF ~is_registered(reg, cli, env.list)
    THEN LET r == register_dispatch(m, files, reg, ch, cli, env)
         IN  [r EXCEPT !.effects = <<Eff("list")>> \o r.effects]
    ELSE IF env.response = "eof"
    THEN Res(FALSE, TRUE, m.path, files, reg, ch, <<Eff("list"), Eff("prompt")>>)
    ELSE IF env.response # "y"
    THEN Res(TRUE, FALSE, m.path, files, reg, ch, <<Eff("list"), Eff("prompt")>>)
    ELSE LET u == unregister(m, files, reg, ch, cli, env)
             r == register_dispatch(m, files, u.registered, u.cache, cli, env)
         IN  [r EXCEPT !.effects = <<Eff("list"), Eff("prompt")>> \o u.effects \o r.effects]

\* faulty variant of register: the answer at the prompt is not looked at
RegisterIgnoresAnswer(m, files, reg, ch, cli, env) ==
    IF ~env.present
    THEN Res(FALSE, FALSE, m.path, files, reg, ch, NoEffects)
    ELSE IF ~is_registered(reg, cli, env.list)
    THEN LET r == register_dispatch(m, files, reg, ch, cli, env)
         IN  [r EXCEPT !.effects = <<Eff("list")>> \o r.effects]
    ELSE IF env.response = "eof"
    THEN Res(FALSE, TRUE, m.path, files, reg, ch, <<Eff("list"), Eff("prompt")>>)
    ELSE LET u == unregister(m, files, reg, ch, cli, env)
             r == register_dispatch(m, files, u.registered, u.cache, cli, env)
         IN  [r EXCEPT !.effects = <<Eff("list"), Eff("prompt")>> \o u.effects \o r.effects]

\* MCP.register(cli)
register(m, files, reg, ch, cli, env) ==
    IF ~env.present
    THEN Res(FALSE, FALSE, m.path, files, reg, ch, NoEffects)
    ELSE IF ~is_registered(reg, cli, env.list)
    THEN LET r == register_dispatch(m, files, reg, ch, cli, env)
         IN  [r EXCEPT !.effects = <<Eff("list")>> \o r.effects]
    ELSE IF env.response = "eof"
    THEN Res(FALSE, TRUE, m.path, files, reg, ch, <<Eff("list"), Eff("prompt")>>)
    ELSE IF env.response # "y"
    THEN Res(TRUE, FALSE, m.path, files, reg, ch, <<Eff("list"), Eff("prompt")>>)
    ELSE LET u == unregister(m, files, reg, ch, cli, env)
             r == register_dispatch(m, files, u.registered, u.cache, cli, env)
         IN  [r EXCEPT !.effects = <<Eff("list"), Eff("prompt")>> \o u.effects \o r.effects]

\* ------------------------------------------------------------ environments
\* what the external commands of one call do; an outcome the call cannot
\* reach is held at its default, so that equal calls are enumerated once
CmdEnvs(m) ==
    {f \in [1..MaxSetupCommands -> CmdOutcomes] :
        \A i \in 1..MaxSetupCommands : i > m.setup_commands => f[i] = "ok"}

DefaultInstallEnv ==
    [clone |-> "ok", rmtree |-> "ok", scriptExists |-> FALSE, script |-> "ok",
     cmds |-> [i \in 1..MaxSetupCommands |-> "ok"]]

\* a timeout or an exception ends the loop over the setup commands: what the
\* later ones would have done is not part of the call
CmdsCanonical(f) ==
    \A i, j \in 1..MaxSetupCommands : (i < j /\ f[i] \in StopOutcomes) => f[j] = "ok"

SetupEnvs(m) ==
    LET cmds == {f \in CmdEnvs(m) : CmdsCanonical(f)}
        scripts == IF m.setup_script
                   THEN {<<TRUE, "fail">>, <<TRUE, "timeout">>, <<FALSE, "ok">>}
                   ELSE {<<FALSE, "ok">>}
    IN  (IF m.setup_script THEN {<<<<TRUE, "ok">>, DefaultInstallEnv.cmds>>} ELSE {})
        \cup (scripts \X cmds)

InstallEnv(clone, setup) ==
    [clone |-> clone, rmtree |-> "ok", scriptExists |-> setup[1][1],
     script |-> setup[1][2], cmds |-> setup[2]]

InstallEnvs(m, files, force) ==
    IF m.runtime \in PackageRuntimes \/ (is_installed(m, files).ret /\ ~force)
    THEN {DefaultInstallEnv}
    ELSE {InstallEnv("ok", s) : s \in SetupEnvs(m)}
         \cup (IF is_installed(m, files).ret
               THEN {}
               ELSE {[DefaultInstallEnv EXCEPT !.clone = c] : c \in CloneOutcomes \ {"ok"}})

UninstallEnvs(remove_files) ==
    [rmtree : IF remove_files THEN RmtreeOutcomes ELSE {"ok"}]

DefaultRegisterEnv ==
    [present |-> TRUE, list |-> "ok", response |-> "n", remove |-> "ok",
     add |-> "ok", entry |-> TRUE]

\* the add command runs for a package unit and for a unit with a path; the
\* python strategy first needs an entry point
AddEnvs(m) ==
    IF m.runtime \notin PackageRuntimes /\ m.path = NoPath
    THEN {DefaultRegisterEnv}
    ELSE {[DefaultRegisterEnv EXCEPT !.add = a] : a \in AddOutcomes}
         \cup (IF m.runtime \in PackageRuntimes \cup {"node"}
               THEN {}
               ELSE {[DefaultRegisterEnv EXCEPT !.entry = FALSE]})

RegisterEnvs(m, reg, cli) ==
    {[DefaultRegisterEnv EXCEPT !.present = FALSE]}
    \cup (IF ~reg[cli]
          THEN AddEnvs(m)
          ELSE {[e EXCEPT !.list = "timeout"] : e \in AddEnvs(m)}
               \cup {[DefaultRegisterEnv EXCEPT !.response = r] : r \in {"n", "eof"}}
               \cup {[e EXCEPT !.response = "y", !.remove = r] :
                        e \in AddEnvs(m), r \in RemoveOutcomes})

UnregisterEnvs ==
    {[present |-> FALSE, remove |-> "ok"]}
    \cup {[present |-> TRUE, remove |-> r] : r \in RemoveOutcomes}

\* ------------------------------------------------------------- MCPManager
\* the names of the units in the registries, and the two registries:
\* installed_config (mcps.yaml) and public_config (public_mcps.yaml)
Names == {"a", "b"}
Colls == {"installed", "public"}

\* the value None of an Optional[str] field
NoneValue == "None"

\* a path string: its form (absolute, or relative to PROJECT_ROOT) and the
\* directory it names; CustomDir and PublicDir lie under PROJECT_ROOT
OutsideDir == "outside_dir"

\* the directory PUBLIC_MCPS_DIR / <name> of a unit of the registries
PublicDirOf(n) == IF n = "a" THEN "public_dir/a" ELSE "public_dir/b"
ScannedDirs == {PublicDirOf(n) : n \in Names}

UnderProjectRoot == {CustomDir, PublicDir} \cup ScannedDirs
NoPathStr == [form |-> "none", dir |-> "none"]
AbsPath(d) == [form |-> "abs", dir |-> d]
RelPath(d) == [form |-> "rel", dir |-> d]

\* resolve_path(path_str): an absolute path as it is, else PROJECT_ROOT / path
resolve_path(p) == IF p.form = "abs" THEN p ELSE AbsPath(p.dir)

\* faulty variant of make_relative_path: every absolute path is cut down to
\* its last part
MakeRelativeAlways(p) == IF p.form = "abs" THEN RelPath(p.dir) ELSE p

\* make_relative_path(abs_path): relative to PROJECT_ROOT when the path is
\* absolute and under it, else the string as it is
make_relative_path(p) ==
    IF p.form = "abs" /\ p.dir \in UnderProjectRoot THEN RelPath(p.dir) ELSE p

\* the fields of the MCP dataclass (description stands for the other fields
\* with a default that is not None) and their defaults
Fields ==
    {"name", "url", "description", "runtime", "setup_commands", "setup_script", "path"}

Default(f) ==
    CASE f = "name" -> ""
      [] f = "url" -> ""
      [] f = "description" -> ""
      [] f = "runtime" -> "python"
      [] f = "setup_commands" -> 0
      [] f = "setup_script" -> NoneValue
      [] f = "path" -> NoPathStr

IsNone(f, v) ==
    \/ (f = "setup_script" /\ v = NoneValue)
    \/ (f = "path" /\ v = NoPathStr)

EmptyMap == [n \in {} |-> 0]
Restrict(f, S) == [x \in S |-> f[x]]

\* MCP.to_dict: the fields whose value is not None
to_dict(m) == Restrict(m, {f \in Fields : ~IsNone(f, m[f])})

\* MCP(**info) raises TypeError for a keyword that is no field and when name
\* is missing
CanConstruct(info) == DOMAIN info \subseteq Fields /\ "name" \in DOMAIN info

\* MCP.from_dict / MCP(**info) with __post_init__: defaults for the missing
\* fields, an invalid runtime becomes python
from_dict(info) ==
    LET m == [f \in Fields |-> IF f \in DOMAIN info THEN info[f] ELSE Default(f)]
    IN  [m EXCEPT !["runtime"] = IF @ \in Runtimes THEN @ ELSE "python"]

\* an entry of the mcps mapping of a registry file: a mapping (info), null, or a
\* scalar; and the file: missing, unparsable, empty, "mcps: null", or a mapping
NoneEntry == [kind |-> "none", info |-> EmptyMap]
ScalarEntry == [kind |-> "scalar", info |-> EmptyMap]
DictEntry(info) == [kind |-> "dict", info |-> info]
Doc(kind) == [kind |-> kind, mcps |-> EmptyMap]
MapDoc(mcps) == [kind |-> "map", mcps |-> mcps]

\* load_installed_mcps / load_public_mcps, "if 'name' not in info"
WithName(info, name) ==
    IF "name" \in DOMAIN info
    THEN info
    ELSE [f \in DOMAIN info \cup {"name"} |-> IF f = "name" THEN name ELSE info[f]]

\* the inner try of the load loop: the entry builds an MCP, or is skipped
Loadable(name, e) ==
    \/ e.kind = "none"
    \/ (e.kind = "dict" /\ CanConstruct(WithName(e.info, name)))

LoadEntry(name, e) == from_dict(WithName(e.info, name))

NoCache == [set |-> FALSE, mcps |-> EmptyMap]
Cached(mcps) == [set |-> TRUE, mcps |-> mcps]

\* faulty variant of load_mcps: one entry that cannot be built ends the load
LoadAbortsOnMalformed(doc, cached, force_reload) ==
    IF cached.set /\ ~force_reload
    THEN [ret |-> cached.mcps, cache |-> cached]
    ELSE IF doc.kind \in {"absent", "garbage", "nullmcps"}
    THEN [ret |-> EmptyMap, cache |-> cached]
    ELSE IF \E k \in DOMAIN doc.mcps : ~Loadable(k, doc.mcps[k])
    THEN [ret |-> EmptyMap, cache |-> cached]
    ELSE LET raw == doc.mcps
             mcps == [n \in DOMAIN raw |-> LoadEntry(n, raw[n])]
         IN  [ret |-> mcps, cache |-> Cached(mcps)]

\* load_installed_mcps / load_public_mcps(force_reload) on the file and the
\* in-memory map of one registry: the map returned and the in-memory map
\* afterwards. The outer except returns {} and leaves the in-memory map alone
load_mcps(doc, cached, force_reload) ==
    IF cached.set /\ ~force_reload
    THEN [ret |-> cached.mcps, cache |-> cached]
    ELSE IF doc.kind \in {"absent", "garbage", "nullmcps"}
    THEN [ret |-> EmptyMap, cache |-> cached]
    ELSE LET raw == doc.mcps
             mcps == [n \in {k \in DOMAIN raw : Loadable(k, raw[k])} |->
                        LoadEntry(n, raw[n])]
         IN  [ret |-> mcps, cache |-> Cached(mcps)]

\* save_installed_mcps / save_public_mcps, the body of the loop: to_dict
\* without name, the path made relative
SavedInfo(m) ==
    LET d == to_dict(m)
        d1 == Restrict(d, DOMAIN d \ {"name"})
    IN  IF "path" \in DOMAIN d1
        THEN [d1 EXCEPT !["path"] = make_relative_path(@)]
        ELSE d1

\* save_installed_mcps / save_public_mcps(mcps): the file written
save_mcps(mcps) == MapDoc([n \in DOMAIN mcps |-> DictEntry(SavedInfo(mcps[n]))])

\* MCPManager.__init__ with _ensure_configs_exist: both files hold "mcps: {}"
FreshDoc == MapDoc(EmptyMap)
NewManager ==
    [config |-> [c \in Colls |-> FreshDoc], mcps_cache |-> [c \in Colls |-> NoCache]]

\* load_installed_mcps / load_public_mcps on the manager
Load(mgr, coll, force_reload) ==
    LET r == load_mcps(mgr.config[coll], mgr.mcps_cache[coll], force_reload)
    IN  [ret |-> r.ret, manager |-> [mgr EXCEPT !.mcps_cache[coll] = r.cache]]

\* save_installed_mcps / save_public_mcps on the manager
Save(mgr, coll, mcps) ==
    [mgr EXCEPT !.config[coll] = save_mcps(mcps), !.mcps_cache[coll] = Cached(mcps)]

NoMCP == [f \in Fields |-> Default(f)]

\* the element of a set of one element: a call made once, with its result
The(S) == CHOOSE x \in S : TRUE

\* faulty variant of get_mcp: the public registry is looked at first
GetMcpPublicFirst(mgr, name) ==
    The({IF name \in DOMAIN p.ret
         THEN [found |-> TRUE, from |-> "public", mcp |-> p.ret[name],
               manager |-> p.manager]
         ELSE The({IF name \in DOMAIN i.ret
                   THEN [found |-> TRUE, from |-> "installed", mcp |-> i.ret[name],
                         manager |-> i.manager]
                   ELSE [found |-> FALSE, from |-> "none", mcp |-> NoMCP,
                         manager |-> i.manager] :
                       i \in {Load(p.manager, "installed", FALSE)}}) :
            p \in {Load(mgr, "public", FALSE)}})

\* MCPManager.get_mcp(name): i is what load_installed_mcps returned, p what
\* load_public_mcps returned
get_mcp(mgr, name) ==
    The({IF name \in DOMAIN i.ret
         THEN [found |-> TRUE, from |-> "installed", mcp |-> i.ret[name],
               manager |-> i.manager]
         ELSE The({IF name \in DOMAIN p.ret
                   THEN [found |-> TRUE, from |-> "public", mcp |-> p.ret[name],
                         manager |-> p.manager]
                   ELSE [found |-> FALSE, from |-> "none", mcp |-> NoMCP,
                         manager |-> p.manager] :
                       p \in {Load(i.manager, "public", FALSE)}}) :
            i \in {Load(mgr, "installed", FALSE)}})

\* dict.update: the entries of e replace those of d under the same key
Update(d, e) ==
    [n \in DOMAIN d \cup DOMAIN e |-> IF n \in DOMAIN e THEN e[n] ELSE d[n]]

\* the field source of MCP is in no registry entry of the model: every unit
\* has its default
DefaultSource == "Community"

\* MCPManager.list_mcps(source, runtime, installed_only, public_only): the
\* installed units, updated with the public units, then filtered; "" is an
\* argument left at None
list_mcps(mgr, source, runtime, installed_only, public_only) ==
    The({The({LET r0 == IF public_only THEN EmptyMap ELSE i.ret
                  r1 == IF installed_only THEN r0 ELSE Update(r0, p.ret)
                  r2 == IF source # ""
                        THEN Restrict(r1, {k \in DOMAIN r1 : DefaultSource = source})
                        ELSE r1
                  r3 == IF runtime # ""
                        THEN Restrict(r2, {k \in DOMAIN r2 : r2[k].runtime = runtime})
                        ELSE r2
              IN  [ret |-> r3, manager |-> p.manager] :
                 p \in {IF installed_only THEN [ret |-> EmptyMap, manager |-> i.manager]
                        ELSE Load(i.manager, "public", FALSE)}}) :
            i \in {IF public_only THEN [ret |-> EmptyMap, manager |-> mgr]
                   ELSE Load(mgr, "installed", FALSE)}})

\* the characters of the strings of the registries
Text(str) ==
    CASE str = "" -> <<>>
      [] str = "a" -> <<"a">>
      [] str = "b" -> <<"b">>
      [] str = "installed" -> <<"i", "n", "s", "t", "a", "l", "l", "e", "d">>
      [] str = "public" -> <<"p", "u", "b", "l", "i", "c">>
      [] str = "Community" -> <<"C", "o", "m", "m", "u", "n", "i", "t", "y">>

\* str.lower() on the characters that occur
Lower(text) ==
    [i \in 1..Len(text) |->
        CASE text[i] = "A" -> "a"
          [] text[i] = "C" -> "c"
          [] text[i] = "P" -> "p"
          [] OTHER -> text[i]]

\* MCPManager.search_mcps(query): the units of list_mcps() whose name,
\* description or source contains the query, case ignored
search_mcps(mgr, query) ==
    The({[ret |-> Restrict(all.ret,
                           {name \in DOMAIN all.ret :
                               \/ Contains(Lower(query), Lower(Text(name)))
                               \/ Contains(Lower(query),
                                           Lower(Text(all.ret[name].description)))
                               \/ Contains(Lower(query), Lower(Text(DefaultSource)))}),
          manager |-> all.manager] :
            all \in {list_mcps(mgr, "", "", FALSE, FALSE)}})

\* the unit of a registry entry as install, uninstall and register see it
AsUnit(o) ==
    [runtime |-> o.runtime, url |-> o.url # "",
     path |-> IF o.path = NoPathStr THEN NoPath ELSE o.path.dir,
     setup_script |-> o.setup_script # NoneValue,
     setup_commands |-> o.setup_commands]

\* the object after a call left self.path at the directory: a path the call set
\* is str(target_path) or str(cloned_path), an absolute path
WithPath(o, dir) ==
    IF dir = AsUnit(o).path THEN o
    ELSE IF dir = NoPath THEN [o EXCEPT !.path = NoPathStr]
    ELSE [o EXCEPT !.path = AbsPath(dir)]

\* the in-memory map of the registry holds the object the call worked on
PutCached(mgr, coll, name, o) ==
    IF mgr.mcps_cache[coll].set /\ name \in DOMAIN mgr.mcps_cache[coll].mcps
    THEN [mgr EXCEPT !.mcps_cache[coll].mcps[name] = o]
    ELSE mgr

\* the result of a call of the manager: what it returned (or that it raised),
\* the manager, the disk, the CLI listings and the status cache afterwards, and
\* the calls on the unit with what they returned and the external commands
\* they ran, in order
MRes(ok, raised, mgr, files, reg, ch, steps) ==
    [ok |-> ok, raised |-> raised, manager |-> mgr, fs |-> files,
     registered |-> reg, cache |-> ch, steps |-> steps]

\* MCPManager.add_installed_mcp(mcp)
add_installed_mcp(mgr, o) ==
    The({Save(l.manager, "installed",
              [n \in DOMAIN l.ret \cup {o.name} |-> IF n = o.name THEN o ELSE l.ret[n]]) :
            l \in {Load(mgr, "installed", FALSE)}})

\* MCPManager.remove_installed_mcp(name)
remove_installed_mcp(mgr, name) ==
    The({IF name \in DOMAIN l.ret
         THEN Save(l.manager, "installed", Restrict(l.ret, DOMAIN l.ret \ {name}))
         ELSE l.manager :
            l \in {Load(mgr, "installed", FALSE)}})

\* MCPManager.add_public_mcp(mcp)
add_public_mcp(mgr, o) ==
    The({Save(l.manager, "public",
              [n \in DOMAIN l.ret \cup {o.name} |-> IF n = o.name THEN o ELSE l.ret[n]]) :
            l \in {Load(mgr, "public", FALSE)}})

\* MCPManager.remove_public_mcp(name): what it returns and the manager
remove_public_mcp(mgr, name) ==
    The({IF name \in DOMAIN l.ret
         THEN [ret |-> TRUE,
               manager |-> Save(l.manager, "public",
                                Restrict(l.ret, DOMAIN l.ret \ {name}))]
         ELSE [ret |-> FALSE, manager |-> l.manager] :
            l \in {Load(mgr, "public", FALSE)}})

\* MCPManager.update_public_mcp(mcp): saved only when the name is loaded
update_public_mcp(mgr, o) ==
    The({IF o.name \in DOMAIN l.ret
         THEN Save(l.manager, "public", [l.ret EXCEPT ![o.name] = o])
         ELSE l.manager :
            l \in {Load(mgr, "public", FALSE)}})

\* MCPManager.install_mcp, after get_mcp returned the unit (g) and the unit's
\* install returned (r): add_installed_mcp when it returned True
InstallFound(g, r, name) ==
    LET o == WithPath(g.mcp, r.path)
        mgr1 == PutCached(g.manager, g.from, name, o)
        steps == <<Eff("install")>> \o r.effects
                 \o <<Eff(IF r.ret /\ ~r.raised THEN "install_true"
                          ELSE "install_false")>>
    IN  IF r.raised \/ ~r.ret
        THEN MRes(FALSE, r.raised, mgr1, r.fs, r.registered, r.cache, steps)
        ELSE MRes(TRUE, FALSE, add_installed_mcp(mgr1, o), r.fs,
                  r.registered, r.cache, steps \o <<Eff("add_installed_mcp")>>)

\* MCPManager.install_mcp(name, force)
install_mcp(mgr, name, force, files, reg, ch, env) ==
    The({IF ~g.found
         THEN MRes(FALSE, FALSE, g.manager, files, reg, ch, <<>>)
         ELSE The({InstallFound(g, r, name) :
                      r \in {install(AsUnit(g.mcp), files, reg, ch, force, env)}}) :
            g \in {get_mcp(mgr, name)}})

\* MCPManager.uninstall_mcp, after get_installed_mcp returned the unit (from the
\* map l.ret) and the unit's uninstall returned (r): remove_installed_mcp when
\* it returned True
UninstallFound(l, r, name) ==
    LET o == WithPath(l.ret[name], r.path)
        mgr1 == PutCached(l.manager, "installed", name, o)
        steps == <<Eff("uninstall")>> \o r.effects
    IN  IF r.raised \/ ~r.ret
        THEN MRes(FALSE, r.raised, mgr1, r.fs, r.registered, r.cache, steps)
        ELSE MRes(TRUE, FALSE, remove_installed_mcp(mgr1, name), r.fs,
                  r.registered, r.cache, steps \o <<Eff("remove_installed_mcp")>>)

\* MCPManager.uninstall_mcp(name, remove_files)
uninstall_mcp(mgr, name, remove_files, files, reg, ch, env) ==
    The({IF name \notin DOMAIN l.ret
         THEN MRes(FALSE, FALSE, l.manager, files, reg, ch, <<>>)
         ELSE The({UninstallFound(l, r, name) :
                      r \in {uninstall(AsUnit(l.ret[name]), files, reg, ch,
                                       remove_files, env)}}) :
            l \in {Load(mgr, "installed", FALSE)}})

\* MCPManager.register_mcp(name, cli)
register_mcp(mgr, name, cli, files, reg, ch, env) ==
    The({IF ~g.found
         THEN MRes(FALSE, FALSE, g.manager, files, reg, ch, <<>>)
         ELSE The({MRes(r.ret /\ ~r.raised, r.raised, g.manager, r.fs, r.registered,
                        r.cache, <<Eff("register")>> \o r.effects) :
                      r \in {register(AsUnit(g.mcp), files, reg, ch, cli, env)}}) :
            g \in {get_mcp(mgr, name)}})

\* the calls of the register that came after those of the install
AfterInstall(i, r) == [r EXCEPT !.steps = i.steps \o r.steps]

\* faulty variant of install_and_register: the result of the install is not
\* looked at
InstallAndRegisterAlways(mgr, name, cli, force, files, reg, ch, ienv, renv) ==
    The({IF i.raised
         THEN i
         ELSE AfterInstall(i, register_mcp(i.manager, name, cli, i.fs, i.registered,
                                           i.cache, renv)) :
            i \in {install_mcp(mgr, name, force, files, reg, ch, ienv)}})

\* MCPManager.install_and_register(name, cli, scope, force): i is what
\* install_mcp returned and left
install_and_register(mgr, name, cli, force, files, reg, ch, ienv, renv) ==
    The({IF i.raised \/ ~i.ok
         THEN i
         ELSE AfterInstall(i, register_mcp(i.manager, name, cli, i.fs, i.registered,
                                           i.cache, renv)) :
            i \in {install_mcp(mgr, name, force, files, reg, ch, ienv)}})

\* --------------------------------------------------------------- commands
\* MCPManager.unregister_mcp(name, cli)
unregister_mcp(mgr, name, cli, files, reg, ch, env) ==
    The({IF ~g.found
         THEN MRes(FALSE, FALSE, g.manager, files, reg, ch, <<>>)
         ELSE The({MRes(r.ret /\ ~r.raised, r.raised, g.manager, r.fs, r.registered,
                        r.cache, <<Eff("unregister")>> \o r.effects) :
                      r \in {unregister(AsUnit(g.mcp), files, reg, ch, cli, env)}}) :
            g \in {get_mcp(mgr, name)}})

\* what a command of pmcp returned and left, with the failures it reported on
\* the way: "unknown" (no unit of that name), "install", "register",
\* "unregister", "remove_files"
CRes(ok, failures, r) ==
    [ok |-> ok, raised |-> r.raised, failures |-> failures, manager |-> r.manager,
     fs |-> r.fs, registered |-> r.registered, cache |-> r.cache, steps |-> r.steps]

\* a step of a command that was skipped
Skipped(mgr, files, reg, ch) == MRes(TRUE, FALSE, mgr, files, reg, ch, <<>>)

\* install_mcp_cmd up to the end of "Install if needed": get_mcp, the status
\* cache invalidated, the status computed without the cache (self.path is set
\* on the way), install_mcp when the status is NOT_INSTALLED or REGISTERED
InstallIfNeeded(mgr, name, cli, files, reg, ch, t, listOut, ienv) ==
    The({IF ~g.found
         THEN [found |-> FALSE, status |-> NOT_INSTALLED,
               res |-> Skipped(g.manager, files, reg, ch)]
         ELSE The({[found |-> TRUE, status |-> s.ret,
                    res |-> IF s.ret \in {NOT_INSTALLED, REGISTERED}
                            THEN install_mcp(PutCached(g.manager, g.from, name,
                                                       WithPath(g.mcp, s.path)),
                                             name, FALSE, files, reg, s.cache, ienv)
                            ELSE Skipped(PutCached(g.manager, g.from, name,
                                                   WithPath(g.mcp, s.path)),
                                         files, reg, s.cache)] :
                      s \in {get_status(AsUnit(g.mcp), files, reg,
                                        invalidate_status_cache(ch, cli), t, cli,
                                        FALSE, listOut)}}) :
            g \in {get_mcp(mgr, name)}})

\* install_mcp_cmd(mcp_name, cli, no_register); the final get_status only
\* prints
install_mcp_cmd(mgr, name, cli, no_register, files, reg, ch, t, listOut, ienv, renv) ==
    The({IF ~i.found
         THEN CRes(FALSE, {"unknown"}, i.res)
         ELSE IF i.res.raised \/ ~i.res.ok
         THEN CRes(FALSE, {"install"}, i.res)
         ELSE IF no_register \/ i.status \notin {NOT_INSTALLED, INSTALLED}
         THEN CRes(TRUE, {}, i.res)
         ELSE The({CRes(r.ok /\ ~r.raised,
                        IF r.ok /\ ~r.raised THEN {} ELSE {"register"},
                        AfterInstall(i.res, r)) :
                      r \in {register_mcp(i.res.manager, name, cli, i.res.fs,
                                          i.res.registered, i.res.cache, renv)}}) :
            i \in {InstallIfNeeded(mgr, name, cli, files, reg, ch, t, listOut, ienv)}})

\* uninstall_mcp_cmd up to the end of "Unregister from CLI": ok is FALSE when
\* unregister_mcp ran and returned False
UnregisterIfRegistered(g, name, cli, files, reg, ch, listOut, uenv) ==
    IF is_registered(reg, cli, listOut)
    THEN unregister_mcp(g.manager, name, cli, files, reg, ch, uenv)
    ELSE Skipped(g.manager, files, reg, ch)

\* uninstall_mcp_cmd, "Remove files if requested", after the unregistration
\* left u: is_installed sets self.path, uninstall_mcp runs when it is True
RemoveFiles(g, u, name, xenv) ==
    The({IF ~ins.ret
         THEN Skipped(u.manager, u.fs, u.registered, u.cache)
         ELSE uninstall_mcp(PutCached(u.manager, g.from, name,
                                      WithPath(g.mcp, ins.path)),
                            name, TRUE, u.fs, u.registered, u.cache, xenv) :
            ins \in {is_installed(AsUnit(g.mcp), u.fs)}})

\* uninstall_mcp_cmd(mcp_name, cli, remove_files): a failed unregistration is
\* printed and the command goes on
uninstall_mcp_cmd(mgr, name, cli, remove_files, files, reg, ch, listOut, uenv, xenv) ==
    The({IF ~g.found
         THEN CRes(FALSE, {"unknown"}, Skipped(g.manager, files, reg, ch))
         ELSE The({IF ~remove_files
                   THEN CRes(TRUE, IF u.ok THEN {} ELSE {"unregister"}, u)
                   ELSE The({CRes(x.ok /\ ~x.raised,
                                  (IF u.ok THEN {} ELSE {"unregister"})
                                  \cup (IF x.ok /\ ~x.raised THEN {}
                                        ELSE {"remove_files"}),
                                  AfterInstall(u, x)) :
                                x \in {RemoveFiles(g, u, name, xenv)}}) :
                      u \in {UnregisterIfRegistered(g, name, cli, files, reg, ch,
                                                    listOut, uenv)}}) :
            g \in {get_mcp(mgr, name)}})

\* show_info(mcp_name): returns None for a known and for an unknown name; the
\* status of a known unit is read through the cache
show_info(mgr, name, files, reg, ch, t, listOut) ==
    The({IF ~g.found
         THEN CRes(TRUE, {"unknown"}, Skipped(g.manager, files, reg, ch))
         ELSE The({CRes(TRUE, {},
                        Skipped(PutCached(g.manager, g.from, name,
                                          WithPath(g.mcp, is_installed(AsUnit(g.mcp),
                                                                       files).path)),
                                files, reg, s.cache)) :
                      s \in {get_status(AsUnit(g.mcp), files, reg, ch, t, DefaultCli,
                                        TRUE, listOut)}}) :
            g \in {get_mcp(mgr, name)}})

\* install_command / uninstall_command of cli.py: sys.exit(1) when the
\* function returned False, and an exception that reaches the interpreter ends
\* the process with 1; info_command never calls sys.exit
exit_code(r) == IF r.raised \/ ~r.ok THEN 1 ELSE 0

\* ------------------------------------------------------------------- sync
\* the working directory of the process: PROJECT_ROOT, or another directory
CwdValues == {"project_root", "elsewhere"}

\* Path(path_str).exists(): a relative path is looked up under the working
\* directory of the process
PathExists(p, files, cwd) ==
    IF p.form = "abs" THEN p.dir \in files
    ELSE cwd = "project_root" /\ p.dir \in files

\* the unit scan_local_mcps builds for a directory of PUBLIC_MCPS_DIR
Scanned(n) ==
    from_dict([name |-> n, description |-> "Locally installed MCP",
               path |-> AbsPath(PublicDirOf(n))])

\* MCPManager.scan_local_mcps(): one unit for each directory of PUBLIC_MCPS_DIR
scan_local_mcps(files) ==
    [n \in {k \in Names : PublicDirOf(k) \in files} |-> Scanned(n)]

\* MCPManager.sync_installed_with_filesystem(): the manager afterwards, the map
\* that was loaded and the map that was saved
sync_installed_with_filesystem(mgr, files, cwd) ==
    The({LET installed == l.ret
             local == scan_local_mcps(files)
             merged == [n \in DOMAIN installed \cup DOMAIN local |->
                           IF n \in DOMAIN installed THEN installed[n] ELSE local[n]]
             to_remove == {n \in DOMAIN merged :
                              /\ merged[n].path # NoPathStr
                              /\ ~PathExists(merged[n].path, files, cwd)}
             kept == Restrict(merged, DOMAIN merged \ to_remove)
         IN  [manager |-> Save(l.manager, "installed", kept),
              loaded |-> installed, saved |-> kept] :
            l \in {Load(mgr, "installed", FALSE)}})

\* -------------------------------------------------------------- discovery
\* the items of TOOL_MCPS_DIR: a tool directory, the directory of the public
\* units, and the status cache file
ToolDir == "msa_server_mcp"
PublicItem == "public"
StatusItem == "mcp.status"
ToolItems == {ToolDir, PublicItem, StatusItem}
SkippedItems == {".git", "__pycache__", StatusItem}

\* the files of a directory that _detect_mcp_config looks for. ShortEntry is
\* src/<short_name>.py, the name without "_server"; NameEntry is src/<name>.py
ShortEntry == "src/msa_mcp.py"
NameEntry == "src/msa_server_mcp.py"
RootNameEntry == "msa_server_mcp.py"
Manifest == "package.json"
NoFile == "-"

\* entry_points, in the order they are tried: the shortened name is inserted
\* at the front for a name with an underscore
entry_points ==
    <<ShortEntry, NameEntry, "src/mcp.py", "src/server.py", RootNameEntry, "server.py">>

\* the build output files of a Node unit, in the order they are tried
build_outputs == <<"build/index.js", "dist/index.js", "index.js">>

Range(q) == {q[i] : i \in DOMAIN q}

\* the first file of the sequence that exists, or NoFile
FirstExisting(q, files) ==
    IF \E i \in DOMAIN q : q[i] \in files
    THEN q[Min({i \in DOMAIN q : q[i] \in files})]
    ELSE NoFile

NoConfig == [found |-> FALSE]

\* _detect_mcp_config, "Detect setup commands"
python_setup_commands(files) ==
    IF "setup.py" \in files \/ "pyproject.toml" \in files
    THEN <<"pip install -e .">>
    ELSE IF "requirements.txt" \in files
    THEN <<"pip install -r requirements.txt">>
    ELSE <<"pip install fastmcp requests">>

node_setup_commands(files) ==
    <<"npm install">>
    \o (IF "tsconfig.json" \in files THEN <<"npm run build">> ELSE <<>>)

Config(name, runtime, server_args, setup_commands, files) ==
    [found |-> TRUE, name |-> name, runtime |-> runtime,
     server_command |-> runtime, server_args |-> server_args,
     setup_commands |-> setup_commands,
     setup_script |-> IF "quick_setup.sh" \in files THEN "quick_setup.sh"
                      ELSE NoneValue]

\* MCPManager._detect_mcp_config(mcp_dir): None when no Python entry point
\* exists; then, with a package manifest, the Node configuration or None when
\* no build output file exists
detect_mcp_config(name, files) ==
    LET entry_point == FirstExisting(entry_points, files)
        output == FirstExisting(build_outputs, files)
    IN  IF entry_point = NoFile
        THEN NoConfig
        ELSE IF Manifest \notin files
        THEN Config(name, "python", <<entry_point>>, python_setup_commands(files),
                    files)
        ELSE IF output = NoFile
        THEN NoConfig
        ELSE Config(name, "node", <<output>>, node_setup_commands(files), files)

\* an item of TOOL_MCPS_DIR: absent, a file, or a directory with its files
NoItem == [kind |-> "absent", files |-> {}]
FileItem == [kind |-> "file", files |-> {}]
DirItem(files) == [kind |-> "dir", files |-> files]
NoTools == [i \in ToolItems |-> NoItem]

\* the candidate subdirectories of discover_tool_mcps
Candidates(t, skip_public_dir) ==
    {i \in ToolItems : /\ t[i].kind = "dir"
                       /\ ~(skip_public_dir /\ i = PublicItem)
                       /\ i \notin SkippedItems}

\* MCPManager.discover_tool_mcps(skip_public_dir): the units, by name
discover_tool_mcps(t, skip_public_dir) ==
    LET found == {i \in Candidates(t, skip_public_dir) :
                     detect_mcp_config(i, t[i].files).found}
    IN  [i \in found |-> detect_mcp_config(i, t[i].files)]

\* ----------------------------------------------------------- SkillManager
\* a name the skill files give that is in neither registry
UnknownName == "c"
SkillUnits == Names \cup {UnknownName}

\* configs.yaml, skills: the required_mcps of each skill; "none" names no skill
SkillConfigs ==
    [single |-> <<"a">>, pair |-> <<"a", "b">>, mixed |-> <<"b", "c", "a">>,
     bare |-> <<>>]
SkillNames == DOMAIN SkillConfigs
NoSuchSkill == "none"

\* SkillManager.get_skill(skill_name)
get_skill(skill_name) ==
    IF skill_name \in SkillNames
    THEN [found |-> TRUE, required_mcps |-> SkillConfigs[skill_name]]
    ELSE [found |-> FALSE, required_mcps |-> <<>>]

\* what one unit has outside the process: its directories, its registrations
\* and its entries of the status cache
World(files, reg, ch) == [fs |-> files, registered |-> reg, cache |-> ch]
NoWorld == World({}, [c \in CLIs |-> FALSE], EmptyCache)

\* a manager of a new process, or a new MCPManager() in the same process: the
\* registry files as they are, nothing loaded
Fresh(mgr) == [mgr EXCEPT !.mcps_cache = [c \in Colls |-> NoCache]]

\* the status of a unit as the disk and the CLI have it
StatusOf(o, w) == Classify(is_installed(AsUnit(o), w.fs).ret, w.registered[DefaultCli])

\* the statuses of the names of a list when a call begins; a name in neither
\* registry has none
Unknown == "unknown"
StatusesAtCall(mgr, world) ==
    The({[n \in SkillUnits |->
             The({IF g.found THEN StatusOf(g.mcp, world[n]) ELSE Unknown :
                     g \in {get_mcp(l, n)}})] :
            l \in {get_mcp(Fresh(mgr), UnknownName).manager}})

\* SkillManager._check_mcp_status, the loop from the k-th name on: the status
\* is read through the cache (get_status(cli) with use_cache at its default)
RECURSIVE check_mcp_status(_, _, _, _, _, _)
check_mcp_status(mgr, mcp_names, k, world, t, listOut) ==
    IF k > Len(mcp_names)
    THEN [already_installed |-> <<>>, needs_installation |-> <<>>, world |-> world]
    ELSE The({IF ~g.found
              THEN The({[rest EXCEPT !.needs_installation = <<mcp_names[k]>> \o @] :
                           rest \in {check_mcp_status(g.manager, mcp_names, k + 1,
                                                      world, t, listOut)}})
              ELSE The({The({IF s.ret = BOTH
                             THEN [rest EXCEPT !.already_installed = <<mcp_names[k]>> \o @]
                             ELSE [rest EXCEPT !.needs_installation = <<mcp_names[k]>> \o @] :
                                rest \in {check_mcp_status(
                                             g.manager, mcp_names, k + 1,
                                             [world EXCEPT ![mcp_names[k]].cache = s.cache],
                                             t, listOut)}}) :
                           s \in {get_status(AsUnit(g.mcp), world[mcp_names[k]].fs,
                                             world[mcp_names[k]].registered,
                                             world[mcp_names[k]].cache, t, DefaultCli,
                                             TRUE, listOut)}}) :
                 g \in {get_mcp(mgr, mcp_names[k])}})

\* the keyword parameters of MCP.install, and the keywords install_one passes
InstallParameters == {"force"}
InstallOneKeywords == {"capture_output"}

\* faulty variant of the binding of a call: any keyword is taken
AcceptsAnyKeyword(parameters, keywords) == TRUE

\* a call with keywords the function does not declare raises TypeError before
\* the body runs
Accepts(parameters, keywords) == keywords \subseteq parameters

\* install_one(name) of _install_mcps_parallel: called is whether mcp.install
\* was called, ran whether its body ran; an exception is caught and the result
\* is False
install_one(mgr, name, world, ienv) ==
    The({IF ~g.found
         THEN [success |-> FALSE, called |-> FALSE, ran |-> FALSE,
               manager |-> g.manager, world |-> world]
         ELSE IF ~Accepts(InstallParameters, InstallOneKeywords)
         THEN [success |-> FALSE, called |-> TRUE, ran |-> FALSE,
               manager |-> g.manager, world |-> world]
         ELSE The({[success |-> r.ret /\ ~r.raised, called |-> TRUE, ran |-> TRUE,
                    manager |-> PutCached(g.manager, g.from, name,
                                          WithPath(g.mcp, r.path)),
                    world |-> [world EXCEPT ![name] = World(r.fs, r.registered, r.cache)]] :
                      r \in {install(AsUnit(g.mcp), world[name].fs,
                                     world[name].registered, world[name].cache,
                                     FALSE, ienv)}}) :
            g \in {get_mcp(mgr, name)}})

\* faulty variant of the end of phase 1: the first completed future is enough
AnyFutureDone(worker, mcp_names) ==
    \E i \in 1..Len(mcp_names) : worker[mcp_names[i]] = "collected"

\* the end of phase 1: as_completed has yielded every future and the executor
\* has been shut down, which waits for every worker
AllFuturesDone(worker, mcp_names) ==
    \A i \in 1..Len(mcp_names) : worker[mcp_names[i]] = "collected"

\* faulty variant of the test of phase 2: the result of the install is not
\* looked at
ShouldRegisterAlways(results, name) == TRUE

\* phase 2, "if results.get(name)"
ShouldRegister(results, name) == results[name]

\* the call that installs a skill: where it is (pc), what it was asked
\* (skill_name, required), what it saw (statuses, already, needs), the workers
\* and their results, and the calls it made on the units so far
NoWorkers == [n \in SkillUnits |-> "none"]
NoResults == [n \in SkillUnits |-> FALSE]
NoSkill ==
    [pc |-> "idle", world |-> [n \in Names |-> NoWorld], skill_name |-> NoSuchSkill,
     found |-> FALSE, copied |-> FALSE, required |-> <<>>,
     statuses |-> [n \in SkillUnits |-> Unknown],
     already |-> <<>>, needs |-> <<>>, worker |-> NoWorkers, results |-> NoResults,
     collected |-> <<>>, idx |-> 0, attempts |-> {}, installCalls |-> <<>>,
     installRan |-> <<>>, registerCalls |-> <<>>, failures |-> {},
     ended |-> FALSE, ret |-> FALSE, raised |-> FALSE]

\* ---------------------------------------------------------------- actions
NoCli == "-"

\* the record of a call: its arguments (flag is force, remove_files or
\* use_cache), what it returned, the external commands it ran in order (with
\* the warnings printed for the setup commands), the call it directly follows,
\* for get_status what the cache lookup met and how the list command of the
\* real check ended and, for register and unregister, whether shutil.which
\* found the CLI binary
NoLast ==
    [op |-> "none", cli |-> NoCli, flag |-> FALSE, ret |-> FALSE, raised |-> FALSE,
     computed |-> FALSE, inst |-> FALSE, reg |-> FALSE, effects |-> NoEffects,
     follows |-> "", lookup |-> "", present |-> TRUE, answer |-> "", list |-> "",
     name |-> <<>>, entries |-> <<>>]

Done(op, cli, flag, follows, r) ==
    /\ mcp' = [mcp EXCEPT !.path = r.path]
    /\ fs' = r.fs
    /\ registered' = r.registered
    /\ cache' = r.cache
    /\ last' = [NoLast EXCEPT !.op = op, !.cli = cli, !.flag = flag, !.ret = r.ret,
                              !.raised = r.raised, !.effects = r.effects,
                              !.follows = follows]
    /\ UNCHANGED <<now, manager, call, tools, skill>>

IsInstalled ==
    LET r == is_installed(mcp, fs)
    IN  /\ mcp' = [mcp EXCEPT !.path = r.path]
        /\ last' = [NoLast EXCEPT !.op = "is_installed", !.ret = r.ret, !.inst = r.ret]
        /\ UNCHANGED <<fs, registered, cache, now, manager, call, tools, skill>>

\* what a lookup of the key meets in the cache file
CacheLookup(ch, cli, t) ==
    IF ch.file # "ok" THEN ch.file
    ELSE IF ch.statuses[cli] = NoEntry THEN "no_entry"
    ELSE IF t - ch.statuses[cli].timestamp > TTL THEN "expired"
    ELSE IF ch.statuses[cli].status \notin MCPStatus THEN "invalid"
    ELSE "valid"

\* the call this get_status directly follows on the same key: an invalidation,
\* or a get_status that computed the status and wrote it less than a TTL ago
GetStatusFollows(cli, use_cache) ==
    IF ~use_cache \/ last.cli # cli THEN ""
    ELSE IF last.op = "invalidate" THEN "invalidate"
    ELSE IF last.op = "get_status" /\ last.flag /\ last.computed
            /\ now - cache.statuses[cli].timestamp <= TTL
    THEN "get_status"
    ELSE ""

GetStatus(cli, use_cache, listOut) ==
    LET r == get_status(mcp, fs, registered, cache, now, cli, use_cache, listOut)
    IN  /\ mcp' = [mcp EXCEPT !.path = r.path]
        /\ cache' = r.cache
        /\ last' = [NoLast EXCEPT !.op = "get_status", !.cli = cli, !.flag = use_cache,
                                  !.ret = r.ret, !.computed = r.computed,
                                  !.inst = r.inst, !.reg = r.reg,
                                  !.effects = IF r.computed THEN <<Eff("list")>>
                                              ELSE NoEffects,
                                  !.list = IF r.computed THEN listOut ELSE "",
                                  !.follows = GetStatusFollows(cli, use_cache),
                                  !.lookup = IF use_cache
                                             THEN CacheLookup(cache, cli, now)
                                             ELSE "off"]
        /\ UNCHANGED <<fs, registered, now, manager, call, tools, skill>>

InvalidateStatusCache(cli) ==
    /\ cache' = invalidate_status_cache(cache, cli)
    /\ last' = [NoLast EXCEPT !.op = "invalidate", !.cli = cli,
                              !.lookup = CacheLookup(cache, cli, now)]
    /\ UNCHANGED <<mcp, fs, registered, now, manager, call, tools, skill>>

\* is_registered(cli) of a unit of the given name while the CLI lists the
\* given servers
IsRegistered(name, cli, entries, listOut) ==
    /\ last' = [NoLast EXCEPT !.op = "is_registered", !.cli = cli,
                              !.ret = is_registered(FoundInList(name, entries), cli,
                                                    listOut),
                              !.effects = <<Eff("list")>>, !.list = listOut,
                              !.name = name, !.entries = entries]
    /\ UNCHANGED <<mcp, fs, registered, cache, now, manager, call, tools, skill>>

\* the install this install directly follows, and how that one ended
InstallFollows ==
    IF last.op = "install" /\ ~last.flag
    THEN IF last.ret /\ ~last.raised THEN "install_ok" ELSE "install_failed"
    ELSE ""

Install(force, env) ==
    Done("install", NoCli, force, InstallFollows,
         install(mcp, fs, registered, cache, force, env))

Uninstall(remove_files, env) ==
    Done("uninstall", NoCli, remove_files, "",
         uninstall(mcp, fs, registered, cache, remove_files, env))

\* the state after a call that first looks for the CLI binary; lookup is what
\* the cache held for the key of the CLI when the call began
DoneCli(op, cli, present, answer, r) ==
    /\ mcp' = [mcp EXCEPT !.path = r.path]
    /\ fs' = r.fs
    /\ registered' = r.registered
    /\ cache' = r.cache
    /\ last' = [NoLast EXCEPT !.op = op, !.cli = cli, !.ret = r.ret,
                              !.raised = r.raised, !.effects = r.effects,
                              !.present = present,
                              !.lookup = CacheLookup(cache, cli, now),
                              !.answer = IF \E i \in 1..Len(r.effects) :
                                               r.effects[i][1] = "prompt"
                                         THEN answer ELSE ""]
    /\ UNCHANGED <<now, manager, call, tools, skill>>

\* register(cli): answer is what was typed at "Update registration? [y/N]"
\* when the prompt was shown
Register(cli, env) ==
    DoneCli("register", cli, env.present, env.response,
            register(mcp, fs, registered, cache, cli, env))

Unregister(cli, env) ==
    DoneCli("unregister", cli, env.present, "",
            unregister(mcp, fs, registered, cache, cli, env))

\* the clock advances
Tick ==
    /\ now + TickStep <= MaxNow
    /\ now' = now + TickStep
    /\ UNCHANGED <<mcp, fs, registered, cache, last, manager, call, tools, skill>>

\* the cache file is lost, or is left unparsable by something outside the unit
CacheFileDamaged(how) ==
    /\ cache.file # how
    /\ cache' = [file |-> how, statuses |-> EmptyStatuses]
    /\ last' = [NoLast EXCEPT !.op = "cache_file_damaged"]
    /\ UNCHANGED <<mcp, fs, registered, now, manager, call, tools, skill>>

\* an entry of the cache file holds a string that is no status
CacheEntryBogus(cli) ==
    /\ cache.file = "ok"
    /\ cache.statuses[cli] # NoEntry
    /\ cache.statuses[cli].status # BogusStatus
    /\ cache' = [cache EXCEPT !.statuses[cli].status = BogusStatus]
    /\ last' = [NoLast EXCEPT !.op = "cache_entry_bogus", !.cli = cli]
    /\ UNCHANGED <<mcp, fs, registered, now, manager, call, tools, skill>>

\* the record of a call of the manager: its arguments, the map or the unit it
\* returned, and for a load that directly follows a save of the same registry
\* the map that was saved
NoCall ==
    [op |-> "none", coll |-> "", name |-> "", cli |-> NoCli, force |-> FALSE,
     ok |-> FALSE, raised |-> FALSE, found |-> FALSE, from |-> "none",
     mcp |-> NoMCP, ret |-> EmptyMap, saved |-> EmptyMap, follows |-> "",
     steps |-> <<>>, cwd |-> "", exit |-> 0, failures |-> {}]

unitVars == <<mcp, fs, registered, cache, now, last, tools, skill>>

LoadMcps(coll, force_reload) ==
    LET r == Load(manager, coll, force_reload)
        afterSave == call.op = "save" /\ call.coll = coll
    IN  /\ manager' = r.manager
        /\ call' = [NoCall EXCEPT !.op = "load", !.coll = coll, !.force = force_reload,
                                  !.ok = TRUE, !.ret = r.ret,
                                  !.follows = IF afterSave THEN "save" ELSE "",
                                  !.saved = IF afterSave THEN call.saved ELSE EmptyMap]
        /\ UNCHANGED unitVars

SaveMcps(coll, mcps) ==
    /\ manager' = Save(manager, coll, mcps)
    /\ call' = [NoCall EXCEPT !.op = "save", !.coll = coll, !.ok = TRUE,
                              !.saved = mcps,
                              !.follows = IF call.op = "load" /\ call.ret = mcps
                                          THEN "load" ELSE ""]
    /\ UNCHANGED unitVars

GetMcp(name) ==
    \E r \in {get_mcp(manager, name)} :
        /\ manager' = r.manager
        /\ call' = [NoCall EXCEPT !.op = "get_mcp", !.name = name, !.ok = r.found,
                                  !.found = r.found, !.from = r.from, !.mcp = r.mcp]
        /\ UNCHANGED unitVars

\* list_mcps: the record keeps which of the two registries the call was
\* restricted to ("" for neither flag, "none" for both flags)
ListMcps(source, runtime, installed_only, public_only) ==
    \E r \in {list_mcps(manager, source, runtime, installed_only, public_only)} :
        /\ manager' = r.manager
        /\ call' = [NoCall EXCEPT !.op = "list_mcps", !.ok = TRUE, !.ret = r.ret,
                                  !.coll = IF installed_only /\ public_only
                                           THEN "none"
                                           ELSE IF installed_only THEN "installed"
                                           ELSE IF public_only THEN "public"
                                           ELSE ""]
        /\ UNCHANGED unitVars

SearchMcps(query) ==
    \E r \in {search_mcps(manager, query)} :
        /\ manager' = r.manager
        /\ call' = [NoCall EXCEPT !.op = "search_mcps", !.ok = TRUE, !.ret = r.ret]
        /\ UNCHANGED unitVars

AddPublicMcp(o) ==
    /\ manager' = add_public_mcp(manager, o)
    /\ call' = [NoCall EXCEPT !.op = "add_public_mcp", !.coll = "public",
                              !.name = o.name, !.ok = TRUE, !.mcp = o]
    /\ UNCHANGED unitVars

RemovePublicMcp(name) ==
    \E r \in {remove_public_mcp(manager, name)} :
        /\ manager' = r.manager
        /\ call' = [NoCall EXCEPT !.op = "remove_public_mcp", !.coll = "public",
                                  !.name = name, !.ok = r.ret]
        /\ UNCHANGED unitVars

UpdatePublicMcp(o) ==
    /\ manager' = update_public_mcp(manager, o)
    /\ call' = [NoCall EXCEPT !.op = "update_public_mcp", !.coll = "public",
                              !.name = o.name, !.ok = TRUE, !.mcp = o]
    /\ UNCHANGED unitVars

\* a registry file is edited, replaced or deleted outside the manager
FileEdited(coll, doc) ==
    /\ manager.config[coll] # doc
    /\ manager' = [manager EXCEPT !.config[coll] = doc]
    /\ call' = [NoCall EXCEPT !.op = "file_edited", !.coll = coll]
    /\ UNCHANGED unitVars

\* the state after a call of the manager that works on a unit
DoneManager(op, name, cli, flag, r) ==
    /\ manager' = r.manager
    /\ fs' = r.fs
    /\ registered' = r.registered
    /\ cache' = r.cache
    /\ call' = [NoCall EXCEPT !.op = op, !.name = name, !.cli = cli, !.force = flag,
                              !.ok = r.ok, !.raised = r.raised, !.steps = r.steps]
    /\ UNCHANGED <<mcp, now, last, tools, skill>>

\* the unit a name stands for when the call begins, and after its install
UnitOf(mgr, name) == AsUnit(get_mcp(mgr, name).mcp)

InstallMcp(name, force, env) ==
    \E r \in {install_mcp(manager, name, force, fs, registered, cache, env)} :
        DoneManager("install_mcp", name, NoCli, force, r)

UninstallMcp(name, remove_files, env) ==
    \E r \in {uninstall_mcp(manager, name, remove_files, fs, registered, cache, env)} :
        DoneManager("uninstall_mcp", name, NoCli, remove_files, r)

InstallAndRegister(name, cli, force, ienv, renv) ==
    \E r \in {install_and_register(manager, name, cli, force, fs, registered,
                                    cache, ienv, renv)} :
        DoneManager("install_and_register", name, cli, force, r)

\* the state after a command of pmcp: the exit code of the process and the
\* failures the command reported
DoneCommand(op, name, cli, flag, r, code) ==
    /\ manager' = r.manager
    /\ fs' = r.fs
    /\ registered' = r.registered
    /\ cache' = r.cache
    /\ call' = [NoCall EXCEPT !.op = op, !.name = name, !.cli = cli, !.force = flag,
                              !.ok = r.ok, !.raised = r.raised, !.steps = r.steps,
                              !.exit = code, !.failures = r.failures]
    /\ UNCHANGED <<mcp, now, last, tools, skill>>

\* pmcp install <name> [--cli cli] [--no-register]
PmcpInstall(name, cli, no_register, listOut, ienv, renv) ==
    \E r \in {install_mcp_cmd(manager, name, cli, no_register, fs, registered,
                               cache, now, listOut, ienv, renv)} :
        DoneCommand("pmcp_install", name, cli, no_register, r, exit_code(r))

\* pmcp uninstall <name> [--cli cli] [--remove-files]
PmcpUninstall(name, cli, remove_files, listOut, uenv, xenv) ==
    \E r \in {uninstall_mcp_cmd(manager, name, cli, remove_files, fs, registered,
                                 cache, listOut, uenv, xenv)} :
        DoneCommand("pmcp_uninstall", name, cli, remove_files, r, exit_code(r))

\* pmcp info <name>
PmcpInfo(name, listOut) ==
    \E r \in {show_info(manager, name, fs, registered, cache, now, listOut)} :
        DoneCommand("pmcp_info", name, NoCli, FALSE, r, 0)

\* discover_tool_mcps(skip_public_dir) over what TOOL_MCPS_DIR holds
DiscoverToolMcps(skip_public_dir) ==
    /\ call' = [NoCall EXCEPT !.op = "discover_tool_mcps", !.force = skip_public_dir,
                              !.ok = TRUE,
                              !.ret = discover_tool_mcps(tools, skip_public_dir)]
    /\ UNCHANGED <<mcp, fs, registered, cache, now, last, manager, tools, skill>>

\* sync_installed_with_filesystem() in a process started in the directory cwd:
\* ret is the map that was loaded, saved the map that was saved
SyncInstalledWithFilesystem(cwd) ==
    \E r \in {sync_installed_with_filesystem(manager, fs, cwd)} :
        /\ manager' = r.manager
        /\ call' = [NoCall EXCEPT !.op = "sync", !.coll = "installed", !.ok = TRUE,
                                  !.cwd = cwd, !.ret = r.loaded, !.saved = r.saved]
        /\ UNCHANGED unitVars

\* a directory is created or removed outside the manager
DirectoryChanged(d) ==
    /\ fs' = IF d \in fs THEN fs \ {d} ELSE fs \cup {d}
    /\ call' = [NoCall EXCEPT !.op = "directory_changed"]
    /\ UNCHANGED <<mcp, registered, cache, now, last, manager, tools, skill>>

\* ---------------------------------------------------------------- pskill
\* the world of a name; a name in no registry has none
WorldOf(world, n) == IF n \in Names THEN world[n] ELSE NoWorld

\* the units of a list on which a call of the given kind was made, in order
CallsOf(steps, kind, n) ==
    IF \E i \in 1..Len(steps) : steps[i][1] = kind THEN <<n>> ELSE <<>>

\* install_skill_and_mcps when one unit needs installation: install_mcp_cmd on
\* it, whose result is only printed
InstallSingle(base, mgr, c, name, listOut, ienv, renv) ==
    The({[skill |-> [base EXCEPT
                        !.world = IF name \in Names
                                  THEN [c.world EXCEPT ![name] =
                                           World(r.fs, r.registered, r.cache)]
                                  ELSE c.world,
                        !.attempts = {name},
                        !.installCalls = CallsOf(r.steps, "install", name),
                        !.installRan = CallsOf(r.steps, "install", name),
                        !.registerCalls = CallsOf(r.steps, "register", name),
                        !.failures = r.failures,
                        !.ended = TRUE, !.ret = ~r.raised, !.raised = r.raised],
          manager |-> Fresh(r.manager)] :
            r \in {install_mcp_cmd(Fresh(mgr), name, DefaultCli, FALSE,
                                   WorldOf(c.world, name).fs,
                                   WorldOf(c.world, name).registered,
                                   WorldOf(c.world, name).cache, 0, listOut,
                                   ienv, renv)}})

\* install_skill_and_mcps after skill.install() returned True: the required
\* units are checked, and none, one or several are installed; with several
\* the workers of phase 1 are submitted
InstallRequired(base, mgr, t, checkList, listOut, ienv, renv) ==
    The({IF Len(c.needs_installation) = 0
         THEN [skill |-> [base EXCEPT !.world = c.world,
                                      !.already = c.already_installed,
                                      !.ended = TRUE, !.ret = TRUE],
               manager |-> Fresh(mgr)]
         ELSE IF Len(c.needs_installation) = 1
         THEN InstallSingle([base EXCEPT !.already = c.already_installed,
                                         !.needs = c.needs_installation],
                            mgr, c, c.needs_installation[1], listOut, ienv, renv)
         ELSE [skill |-> [base EXCEPT
                             !.pc = "parallel", !.world = c.world,
                             !.already = c.already_installed,
                             !.needs = c.needs_installation,
                             !.attempts = Range(c.needs_installation),
                             !.worker = [n \in SkillUnits |->
                                            IF n \in Range(c.needs_installation)
                                            THEN "submitted" ELSE "none"]],
               manager |-> Fresh(mgr)] :
            c \in {check_mcp_status(Fresh(mgr), base.required, 1, base.world, t,
                                    checkList)}})

\* SkillManager.install_skill_and_mcps(skill_name), up to its return or to the
\* start of the parallel installation; copy is how skill.install() ended
install_skill_and_mcps(sk, mgr, skill_name, t, copy, checkList, listOut, ienv, renv) ==
    The({IF ~base.found
         THEN [skill |-> [base EXCEPT !.ended = TRUE, !.ret = FALSE,
                                      !.failures = {"unknown_skill"}],
               manager |-> Fresh(mgr)]
         ELSE IF copy # "ok"
         THEN [skill |-> [base EXCEPT !.ended = TRUE, !.ret = FALSE,
                                      !.failures = {"copy"}],
               manager |-> Fresh(mgr)]
         ELSE IF Len(base.required) = 0
         THEN [skill |-> [base EXCEPT !.copied = TRUE, !.ended = TRUE, !.ret = TRUE],
               manager |-> Fresh(mgr)]
         ELSE InstallRequired([base EXCEPT !.copied = TRUE], mgr, t, checkList,
                              listOut, ienv, renv) :
            base \in {[NoSkill EXCEPT
                          !.world = sk.world, !.skill_name = skill_name,
                          !.found = get_skill(skill_name).found,
                          !.required = get_skill(skill_name).required_mcps,
                          !.statuses = StatusesAtCall(mgr, sk.world)]}})

skillFrame == <<mcp, fs, registered, cache, now, last, call, tools>>

\* pskill install <skill_name>
InstallSkillAndMcps(skill_name, copy, checkList, listOut, ienv, renv) ==
    /\ skill.pc = "idle"
    /\ \E r \in {install_skill_and_mcps(skill, manager, skill_name, now, copy,
                                        checkList, listOut, ienv, renv)} :
          /\ skill' = r.skill
          /\ manager' = r.manager
    /\ UNCHANGED skillFrame

\* a worker of the pool runs install_one(n) to its return
WorkerInstall(n, ienv) ==
    /\ skill.pc = "parallel"
    /\ skill.worker[n] = "submitted"
    /\ \E r \in {install_one(manager, n, skill.world, ienv)} :
          /\ skill' = [skill EXCEPT
                          !.world = r.world,
                          !.worker[n] = IF r.success THEN "returned_true"
                                        ELSE "returned_false",
                          !.installCalls = IF r.called THEN Append(@, n) ELSE @,
                          !.installRan = IF r.ran THEN Append(@, n) ELSE @]
          /\ manager' = r.manager
    /\ UNCHANGED skillFrame

\* as_completed yields the future of n: its result is put into results
FutureCollected(n) ==
    /\ skill.pc = "parallel"
    /\ skill.worker[n] \in {"returned_true", "returned_false"}
    /\ skill' = [skill EXCEPT !.results[n] = (skill.worker[n] = "returned_true"),
                              !.worker[n] = "collected",
                              !.collected = Append(@, n)]
    /\ UNCHANGED <<manager, skillFrame>>

\* the with block of the executor is left: phase 2 begins
ExecutorJoined ==
    /\ skill.pc = "parallel"
    /\ AllFuturesDone(skill.worker, skill.needs)
    /\ skill' = [skill EXCEPT !.pc = "phase2", !.idx = 1]
    /\ UNCHANGED <<manager, skillFrame>>

\* one turn of the loop of phase 2 on the name at idx, and after the last
\* name the return of install_skill_and_mcps
RegisterNext(renv) ==
    /\ skill.pc = "phase2"
    /\ skill.idx <= Len(skill.needs)
    /\ LET n == skill.needs[skill.idx]
           last_turn == skill.idx = Len(skill.needs)
           after == [skill EXCEPT !.idx = @ + 1,
                                  !.pc = IF last_turn THEN "idle" ELSE @,
                                  !.ended = last_turn, !.ret = last_turn]
       IN  \E g \in {get_mcp(manager, n)} :
              IF ShouldRegister(skill.results, n) /\ g.found
              THEN \E r \in {register(AsUnit(g.mcp), skill.world[n].fs,
                                      skill.world[n].registered,
                                      skill.world[n].cache, DefaultCli, renv)} :
                      /\ skill' =
                            IF r.raised
                            THEN [skill EXCEPT
                                     !.world[n] = World(r.fs, r.registered, r.cache),
                                     !.registerCalls = Append(@, n),
                                     !.pc = "idle", !.ended = TRUE, !.raised = TRUE]
                            ELSE [after EXCEPT
                                     !.world[n] = World(r.fs, r.registered, r.cache),
                                     !.registerCalls = Append(@, n)]
                      /\ manager' = IF r.raised \/ last_turn
                                    THEN Fresh(g.manager)
                                    ELSE PutCached(g.manager, g.from, n,
                                                   WithPath(g.mcp, r.path))
              ELSE /\ skill' = after
                   /\ manager' = IF last_turn THEN Fresh(manager) ELSE manager
    /\ UNCHANGED skillFrame

\* "claude mcp remove <name>" is run outside pmcp and pskill: the status cache
\* is not told
RemovedOutside(n) ==
    /\ skill.pc = "idle"
    /\ skill.world[n].registered[DefaultCli]
    /\ skill' = [NoSkill EXCEPT
                    !.world = [skill.world EXCEPT ![n].registered[DefaultCli] = FALSE]]
    /\ UNCHANGED <<manager, skillFrame>>

\* ------------------------------------------------------------------ spec
\* the units a registry file can hold: MCP(**info) takes any of the fields
Units ==
    [runtime : Runtimes, url : BOOLEAN, path : {NoPath} \cup Dirs,
     setup_script : BOOLEAN, setup_commands : {0, MaxSetupCommands}]

\* installing and uninstalling any unit, whatever the CLIs list, with a cold
\* status cache
Init ==
    /\ mcp \in Units
    /\ fs \in SUBSET Dirs
    /\ registered \in [CLIs -> BOOLEAN]
    /\ cache = EmptyCache
    /\ now = 0
    /\ last = NoLast
    /\ manager = NewManager
    /\ call = NoCall
    /\ tools = NoTools
    /\ skill = NoSkill

Next ==
    \/ IsInstalled
    \/ \E c \in CLIs, o \in ListOutcomes : GetStatus(c, FALSE, o)
    \/ \E f \in BOOLEAN : \E env \in InstallEnvs(mcp, fs, f) : Install(f, env)
    \/ \E rf \in BOOLEAN : \E env \in UninstallEnvs(rf) : Uninstall(rf, env)

Spec == Init /\ [][Next]_vars

\* a unit cloned from its url into the public directory, and a package unit
CacheUnits ==
    {u \in Units : /\ u.runtime \in {"python", "uvx"}
                   /\ u.url
                   /\ u.path = NoPath
                   /\ ~u.setup_script
                   /\ u.setup_commands = 0}

\* every operation of the unit, with the status cache in use
InitOps ==
    /\ mcp \in CacheUnits
    /\ fs \in SUBSET {PublicDir}
    /\ registered = [c \in CLIs |-> FALSE]
    /\ cache = EmptyCache
    /\ now = 0
    /\ last = NoLast
    /\ manager = NewManager
    /\ call = NoCall
    /\ tools = NoTools
    /\ skill = NoSkill

NextOps ==
    \/ \E c \in CLIs, u \in BOOLEAN, o \in ListOutcomes : GetStatus(c, u, o)
    \/ \E f \in BOOLEAN : \E env \in InstallEnvs(mcp, fs, f) : Install(f, env)
    \/ \E rf \in BOOLEAN : \E env \in UninstallEnvs(rf) : Uninstall(rf, env)
    \/ \E c \in CLIs : \E env \in RegisterEnvs(mcp, registered, c) : Register(c, env)
    \/ \E c \in CLIs, env \in UnregisterEnvs : Unregister(c, env)

SpecOps == InitOps /\ [][NextOps]_vars

\* the units that need no setup after the clone
LifeUnits == {u \in Units : ~u.setup_script /\ u.setup_commands = 0}

\* the four operations that change what is on disk and what the CLIs list, on
\* any such unit
InitLife ==
    /\ mcp \in LifeUnits
    /\ fs \in SUBSET Dirs
    /\ registered \in [CLIs -> BOOLEAN]
    /\ cache = EmptyCache
    /\ now = 0
    /\ last = NoLast
    /\ manager = NewManager
    /\ call = NoCall
    /\ tools = NoTools
    /\ skill = NoSkill

NextLife ==
    \/ \E f \in BOOLEAN : \E env \in InstallEnvs(mcp, fs, f) : Install(f, env)
    \/ \E rf \in BOOLEAN : \E env \in UninstallEnvs(rf) : Uninstall(rf, env)
    \/ \E c \in CLIs : \E env \in RegisterEnvs(mcp, registered, c) : Register(c, env)
    \/ \E c \in CLIs, env \in UnregisterEnvs : Unregister(c, env)

SpecLife == InitLife /\ [][NextLife]_vars

\* the status cache over time, while the unit and the CLI listings stay as
\* they are
InitCache ==
    /\ mcp \in CacheUnits
    /\ fs \in SUBSET {PublicDir}
    /\ registered \in [CLIs -> BOOLEAN]
    /\ cache = EmptyCache
    /\ now = 0
    /\ last = NoLast
    /\ manager = NewManager
    /\ call = NoCall
    /\ tools = NoTools
    /\ skill = NoSkill

NextCache ==
    \/ \E c \in CLIs, u \in BOOLEAN, o \in ListOutcomes : GetStatus(c, u, o)
    \/ \E c \in CLIs : InvalidateStatusCache(c)
    \/ Tick
    \/ \E how \in {"missing", "corrupt"} : CacheFileDamaged(how)
    \/ \E c \in CLIs : CacheEntryBogus(c)

SpecCache == InitCache /\ [][NextCache]_vars

\* a unit with every optional field unset, and one with every field set
Minimal(n) == from_dict([name |-> n])
Populated(n, p) ==
    [name |-> n, url |-> "https://github.com/o/r", description |-> "text",
     runtime |-> "node", setup_commands |-> MaxSetupCommands,
     setup_script |-> "quick_setup.sh", path |-> p]

\* the maps of units that are saved: keyed by the name of the unit
SampleObjects(n) ==
    IF n = "a"
    THEN {Minimal(n), Populated(n, AbsPath(CustomDir))}
    ELSE {Populated(n, AbsPath(OutsideDir)), Populated(n, RelPath(CustomDir))}

SampleMaps ==
    UNION {{m \in [S -> UNION {SampleObjects(n) : n \in S}] :
                \A n \in S : m[n] \in SampleObjects(n)} : S \in SUBSET Names}

\* the registry files that are found on disk: entries that are null, a scalar,
\* a mapping with a key that is no field, and mappings that build a unit
SampleEntries(n) ==
    IF n = "a"
    THEN {NoneEntry, DictEntry(SavedInfo(Populated(n, AbsPath(CustomDir))))}
    ELSE {ScalarEntry, DictEntry([bogus |-> "x"]),
          DictEntry([runtime |-> "ruby", path |-> AbsPath(OutsideDir)])}

SampleDocs ==
    {Doc(k) : k \in {"absent", "garbage", "empty", "nullmcps"}}
    \cup UNION {{MapDoc(m) : m \in {e \in [S -> UNION {SampleEntries(n) : n \in S}] :
                                        \A n \in S : e[n] \in SampleEntries(n)}} :
                    S \in SUBSET Names}

DefaultUnit ==
    [runtime |-> "python", url |-> FALSE, path |-> NoPath, setup_script |-> FALSE,
     setup_commands |-> 0]

InitUnit ==
    /\ mcp = DefaultUnit
    /\ fs = {}
    /\ registered = [c \in CLIs |-> FALSE]
    /\ cache = EmptyCache
    /\ now = 0
    /\ last = NoLast

\* the registry is as the constructor left it
Untouched(coll) ==
    /\ manager.config[coll] = FreshDoc
    /\ manager.mcps_cache[coll] \in {NoCache, Cached(EmptyMap)}

Other(coll) == CHOOSE c \in Colls : c # coll

\* loading and saving the registries, one registry at a time while the other
\* stays as constructed; a map that was loaded can be saved again
InitRegistry ==
    /\ InitUnit
    /\ manager = NewManager
    /\ call = NoCall
    /\ tools = NoTools
    /\ skill = NoSkill

NextRegistry ==
    \E coll \in Colls :
        /\ Untouched(Other(coll))
        /\ \/ \E force_reload \in BOOLEAN : LoadMcps(coll, force_reload)
           \/ \E mcps \in SampleMaps : SaveMcps(coll, mcps)
           \/ (call.op = "load" /\ call.coll = coll /\ SaveMcps(coll, call.ret))
           \/ \E doc \in SampleDocs : FileEdited(coll, doc)

SpecRegistry == InitRegistry /\ [][NextRegistry]_vars

\* looking a name up while both registries hold units
LookupEntry(coll) == DictEntry([description |-> coll])
LookupDocs(coll) ==
    {Doc("absent")}
    \cup {MapDoc([n \in S |-> LookupEntry(coll)]) : S \in SUBSET Names}

\* the filters of a listing and the queries of a search
ListSources == {"", "Community", "Other"}
ListRuntimes == {"", "python", "node"}
Queries == {<<>>, <<"a">>, <<"A">>, <<"P", "u", "b">>, <<"z">>}

InitLookup ==
    /\ InitUnit
    /\ manager \in {[config |-> [c \in Colls |-> IF c = "installed" THEN di ELSE dp],
                     mcps_cache |-> [c \in Colls |-> NoCache]] :
                        di \in LookupDocs("installed"), dp \in LookupDocs("public")}
    /\ call = NoCall
    /\ tools = NoTools
    /\ skill = NoSkill

NextLookup ==
    \/ \E n \in Names : GetMcp(n)
    \/ \E coll \in Colls, force_reload \in BOOLEAN : LoadMcps(coll, force_reload)
    \/ \E coll \in Colls : \E doc \in LookupDocs(coll) : FileEdited(coll, doc)
    \/ \E source \in ListSources, runtime \in ListRuntimes,
          installed_only \in BOOLEAN, public_only \in BOOLEAN :
          ListMcps(source, runtime, installed_only, public_only)
    \/ \E query \in Queries : SearchMcps(query)

SpecLookup == InitLookup /\ [][NextLookup]_vars

\* the unit "a" of the registries: cloned from its url or a package, with or
\* without a path in the file; the name "b" is in no registry
ManagedEntries ==
    {DictEntry([url |-> "https://github.com/o/r", runtime |-> rt]) :
        rt \in {"python", "uvx"}}
    \cup {DictEntry([url |-> "https://github.com/o/r", runtime |-> "node",
                     path |-> RelPath(CustomDir)])}

ManagedDocs == {FreshDoc} \cup {MapDoc([n \in {"a"} |-> e]) : e \in ManagedEntries}

\* the operations of the manager on a unit, by name
InitManager ==
    /\ mcp = DefaultUnit
    /\ fs \in SUBSET Dirs
    /\ registered \in [CLIs -> BOOLEAN]
    /\ cache = EmptyCache
    /\ now = 0
    /\ last = NoLast
    /\ manager \in {[config |-> [c \in Colls |-> IF c = "installed" THEN di ELSE dp],
                     mcps_cache |-> [c \in Colls |-> NoCache]] :
                        di \in {FreshDoc}, dp \in ManagedDocs}
    /\ call = NoCall
    /\ tools = NoTools
    /\ skill = NoSkill

NextManager ==
    \/ \E n \in Names, f \in BOOLEAN :
          \E env \in InstallEnvs(UnitOf(manager, n), fs, f) : InstallMcp(n, f, env)
    \/ \E n \in Names, rf \in BOOLEAN :
          \E env \in UninstallEnvs(rf) : UninstallMcp(n, rf, env)
    \/ \E n \in Names, c \in CLIs, f \in BOOLEAN :
          \E ienv \in InstallEnvs(UnitOf(manager, n), fs, f) :
             \E i \in {install_mcp(manager, n, f, fs, registered, cache, ienv)} :
                 \E renv \in IF i.ok
                                THEN RegisterEnvs(UnitOf(i.manager, n), registered, c)
                                ELSE {DefaultRegisterEnv} :
                    InstallAndRegister(n, c, f, ienv, renv)

SpecManager == InitManager /\ [][NextManager]_vars

\* the commands of pmcp on the units of the registries
InitCommands ==
    /\ mcp = DefaultUnit
    /\ fs \in {{}, {PublicDir}, {CustomDir}}
    /\ registered \in {[c \in CLIs |-> c = DefaultCli /\ b] : b \in BOOLEAN}
    /\ cache = EmptyCache
    /\ now = 0
    /\ last = NoLast
    /\ manager \in {[config |-> [c \in Colls |-> IF c = "installed" THEN FreshDoc ELSE dp],
                     mcps_cache |-> [c \in Colls |-> NoCache]] : dp \in ManagedDocs}
    /\ call = NoCall
    /\ tools = NoTools
    /\ skill = NoSkill

NextCommands ==
    \/ \E n \in Names, c \in {DefaultCli}, nr \in BOOLEAN, l \in ListOutcomes :
          \E s \in {InstallIfNeeded(manager, n, c, fs, registered, cache, now, l,
                                     DefaultInstallEnv)} :
             \E ienv \in IF s.found /\ s.status \in {NOT_INSTALLED, REGISTERED}
                            THEN InstallEnvs(UnitOf(manager, n), fs, FALSE)
                            ELSE {DefaultInstallEnv} :
                \E i \in {InstallIfNeeded(manager, n, c, fs, registered, cache, now,
                                           l, ienv)} :
                    \E renv \in IF i.found /\ i.res.ok /\ ~nr
                                      /\ i.status \in {NOT_INSTALLED, INSTALLED}
                                   THEN RegisterEnvs(UnitOf(i.res.manager, n),
                                                     i.res.registered, c)
                                   ELSE {DefaultRegisterEnv} :
                       PmcpInstall(n, c, nr, l, ienv, renv)
    \/ \E n \in Names, c \in {DefaultCli}, rf \in BOOLEAN, l \in ListOutcomes :
          \E uenv \in IF is_registered(registered, c, l) /\ get_mcp(manager, n).found
                         THEN UnregisterEnvs
                         ELSE {[present |-> TRUE, remove |-> "ok"]},
             xenv \in UninstallEnvs(rf) :
             PmcpUninstall(n, c, rf, l, uenv, xenv)
    \/ \E n \in Names, l \in ListOutcomes : PmcpInfo(n, l)

SpecCommands == InitCommands /\ [][NextCommands]_vars

\* pskill install on skills whose units are in the public registry, cloned
\* or not and registered or not
SkillDoc ==
    MapDoc([n \in Names |->
               DictEntry([url |-> "https://github.com/o/r", runtime |-> "python"])])

SkillWorlds ==
    {World(f, [c \in CLIs |-> c = DefaultCli /\ b], EmptyCache) :
        f \in {{}, {PublicDir}}, b \in BOOLEAN}

\* the outcomes of the external commands that pskill install is run against
SkillListOutcomes == {"ok", "timeout"}
SkillInstallEnvs(m, files) ==
    {e \in InstallEnvs(m, files, FALSE) : e.clone \in {"ok", "fail"}}
SkillRegisterEnvs(m, reg) ==
    {e \in RegisterEnvs(m, reg, DefaultCli) :
        /\ e.add \in {"ok", "fail"}
        /\ e.remove = "ok"
        /\ e.list = "ok"}

InitSkill ==
    /\ mcp = DefaultUnit
    /\ fs = {}
    /\ registered = [c \in CLIs |-> FALSE]
    /\ cache = EmptyCache
    /\ now = 0
    /\ last = NoLast
    /\ manager = [config |-> [c \in Colls |-> IF c = "installed" THEN FreshDoc
                                               ELSE SkillDoc],
                  mcps_cache |-> [c \in Colls |-> NoCache]]
    /\ call = NoCall
    /\ tools = NoTools
    /\ skill \in {[NoSkill EXCEPT !.world = w] :
                    w \in {v \in [Names -> SkillWorlds] :
                              (PublicDir \in v["b"].fs) = v["b"].registered[DefaultCli]}}

\* what the commands of the single installation can do: only the unit that
\* needs installation runs them
SingleEnvs(sk, mgr, skill_name, copy, checkList) ==
    UNION {IF Len(p.needs) # 1 \/ p.needs \notin Seq(Names)
           THEN {<<"ok", DefaultInstallEnv, DefaultRegisterEnv>>}
           ELSE {<<l, ienv, renv>> :
                    l \in SkillListOutcomes,
                    ienv \in SkillInstallEnvs(UnitOf(mgr, p.needs[1]),
                                              p.world[p.needs[1]].fs),
                    renv \in SkillRegisterEnvs([UnitOf(mgr, p.needs[1])
                                                   EXCEPT !.path = PublicDir],
                                               p.world[p.needs[1]].registered)} :
              p \in {install_skill_and_mcps(sk, mgr, skill_name, 0, copy, checkList,
                                            "ok", DefaultInstallEnv,
                                            DefaultRegisterEnv).skill}}

NextSkill ==
    \/ \E s \in SkillNames \cup {NoSuchSkill}, copy \in {"ok", "error"} :
          \E checkList \in IF copy = "ok" /\ s \in SkillNames
                            THEN SkillListOutcomes ELSE {"ok"} :
             \E e \in SingleEnvs(skill, manager, s, copy, checkList) :
                InstallSkillAndMcps(s, copy, checkList, e[1], e[2], e[3])
    \/ \E n \in SkillUnits :
          \E ienv \in IF n \in Names /\ Accepts(InstallParameters, InstallOneKeywords)
                         THEN SkillInstallEnvs(UnitOf(manager, n), skill.world[n].fs)
                         ELSE {DefaultInstallEnv} :
             WorkerInstall(n, ienv)
    \/ \E n \in SkillUnits : FutureCollected(n)
    \/ ExecutorJoined
    \/ \E renv \in IF skill.pc = "phase2" /\ skill.idx <= Len(skill.needs)
                         /\ skill.results[skill.needs[skill.idx]]
                      THEN SkillRegisterEnvs([UnitOf(manager, skill.needs[skill.idx])
                                                 EXCEPT !.path = PublicDir],
                                             skill.world[skill.needs[skill.idx]].registered)
                      ELSE {DefaultRegisterEnv} :
          RegisterNext(renv)
    \/ \E n \in Names : RemovedOutside(n)

SpecSkill == InitSkill /\ [][NextSkill]_vars

\* the installed registry as earlier runs left it: a unit without a path, units
\* whose path was saved relative to PROJECT_ROOT, a unit outside PROJECT_ROOT
SyncEntries(n) ==
    IF n = "a"
    THEN {DictEntry([description |-> "kept"]),
          DictEntry(SavedInfo(Scanned(n))),
          DictEntry([path |-> AbsPath(OutsideDir)])}
    ELSE {DictEntry([path |-> RelPath(CustomDir)])}

SyncDocs ==
    {Doc("absent")}
    \cup UNION {{MapDoc(m) : m \in {e \in [S -> UNION {SyncEntries(n) : n \in S}] :
                                        \A n \in S : e[n] \in SyncEntries(n)}} :
                    S \in SUBSET Names}

SyncDirs == ScannedDirs \cup {CustomDir, OutsideDir}

\* synchronising the installed registry with the disk, from any working
\* directory, while directories come and go
InitSync ==
    /\ mcp = DefaultUnit
    /\ fs \in SUBSET SyncDirs
    /\ registered = [c \in CLIs |-> FALSE]
    /\ cache = EmptyCache
    /\ now = 0
    /\ last = NoLast
    /\ manager \in {[NewManager EXCEPT !.config["installed"] = d] : d \in SyncDocs}
    /\ call = NoCall
    /\ tools = NoTools
    /\ skill = NoSkill

NextSync ==
    \/ \E cwd \in CwdValues : SyncInstalledWithFilesystem(cwd)
    \/ \E d \in SyncDirs : DirectoryChanged(d)

SpecSync == InitSync /\ [][NextSync]_vars

\* what a tool directory holds: at most one Python entry file or two of them,
\* any of the build output files, with or without a package manifest, and the
\* files the setup commands are inferred from
PythonFiles ==
    {{}} \cup {{f} : f \in Range(entry_points)} \cup {{NameEntry, "server.py"}}
SetupFiles ==
    {{}, {"tsconfig.json"}, {"requirements.txt"}, {"setup.py", "quick_setup.sh"}}
ToolContents ==
    {p \cup j \cup m \cup f : p \in PythonFiles, j \in SUBSET Range(build_outputs),
                              m \in SUBSET {Manifest}, f \in SetupFiles}

\* discovery over a tool directory, next to the directory of the public units
\* and the status cache file
InitDiscover ==
    /\ InitUnit
    /\ manager = NewManager
    /\ call = NoCall
    /\ tools \in {[i \in ToolItems |-> IF i = ToolDir THEN DirItem(c)
                                       ELSE IF i = PublicItem THEN pub
                                       ELSE st] :
                    c \in ToolContents,
                    pub \in {NoItem, DirItem({"server.py"})},
                    st \in {NoItem, FileItem}}
    /\ skill = NoSkill

NextDiscover == \E skip_public_dir \in BOOLEAN : DiscoverToolMcps(skip_public_dir)

SpecDiscover == InitDiscover /\ [][NextDiscover]_vars

\* adding, removing and updating the units of the public registry, whose file
\* is as found on disk
InitPublic ==
    /\ InitUnit
    /\ manager \in {[NewManager EXCEPT !.config["public"] = doc] : doc \in SampleDocs}
    /\ call = NoCall
    /\ tools = NoTools
    /\ skill = NoSkill

NextPublic ==
    \/ \E n \in Names : \E o \in SampleObjects(n) : AddPublicMcp(o)
    \/ \E n \in Names : RemovePublicMcp(n)
    \/ \E n \in Names : \E o \in SampleObjects(n) : UpdatePublicMcp(o)
    \/ \E doc \in SampleDocs : FileEdited("public", doc)

SpecPublic == InitPublic /\ [][NextPublic]_vars

\* the names of units and of the servers a CLI lists, as texts
UnitNames == {<<"a">>, <<"a", "b">>, <<"a", "-", "b">>, <<"a", "/", "b">>, <<"b">>}
ServerNames == {<<"a">>, <<"a", "b">>, <<"a", "_", "b">>, <<"b">>}
MaxServers == 2
ServerLists ==
    {q \in UNION {[1..k -> ServerNames] : k \in 0..MaxServers} :
        \A i, j \in DOMAIN q : i # j => q[i] # q[j]}

\* the registration check of any unit against any list output
InitListing ==
    /\ InitUnit
    /\ manager = NewManager
    /\ call = NoCall
    /\ tools = NoTools
    /\ skill = NoSkill

NextListing ==
    \E name \in UnitNames, c \in CLIs, entries \in ServerLists, o \in ListOutcomes :
        IsRegistered(name, c, entries, o)

SpecListing == InitListing /\ [][NextListing]_vars

\* ----------------------------------------------------------------- claims
\* the external commands a call ran, by kind
Ran(kind) == \E i \in 1..Len(last.effects) : last.effects[i][1] = kind
RanSetup == Ran("setup_script") \/ Ran("setup_command")

\* the status the real check computes when the CLI answers its list command
RealStatus(cli) == Classify(is_installed(mcp, fs).ret, registered[cli])

\* the two booleans a get_status saw are those of the unit and of the CLI: what
\* is_installed returns, and a registration the listing really holds
SawRealState ==
    /\ last.inst = is_installed(mcp, fs).ret
    /\ last.reg => registered[last.cli]

\* C1: get_status(cli, use_cache=False) returns BOTH iff is_installed() and
\* is_registered(cli) are both true, REGISTERED iff only is_registered(cli) is,
\* INSTALLED iff only is_installed() is, NOT_INSTALLED iff both are false.
C1_StatusIsPairwiseCombination ==
    (last.op = "get_status" /\ ~last.flag) =>
        /\ last.computed
        /\ SawRealState
        /\ last.ret = BOTH <=> (last.inst /\ last.reg)
        /\ last.ret = REGISTERED <=> (~last.inst /\ last.reg)
        /\ last.ret = INSTALLED <=> (last.inst /\ ~last.reg)
        /\ last.ret = NOT_INSTALLED <=> (~last.inst /\ ~last.reg)

C1_Witness ==
    /\ last.op = "get_status" /\ ~last.flag
    /\ last.ret = REGISTERED
    /\ mcp.runtime = "python"

\* C2: after an install, uninstall, register or unregister has completed,
\* get_status(cli, use_cache=True) returns for every CLI (claude and gemini) the
\* status computed from the real state, never one cached before the operation.
C2_NoStaleStatusAfterOperation ==
    (last.op \in {"install", "uninstall", "register", "unregister"} /\ last.ret
        /\ ~last.raised) =>
        \A c \in CLIs :
            get_status(mcp, fs, registered, cache, now, c, TRUE, "ok").ret
                = RealStatus(c)

\* C3: a get_status(c, use_cache=True) that directly follows
\* invalidate_status_cache(c) calls is_installed and is_registered(c) and returns
\* the status computed from them, whatever the cache held for the key.
C3_InvalidateThenRecompute ==
    (last.op = "get_status" /\ last.flag /\ last.follows = "invalidate") =>
        /\ last.computed
        /\ Ran("list")
        /\ SawRealState
        /\ last.ret = Classify(last.inst, last.reg)

C3_Witness ==
    /\ last.op = "get_status" /\ last.flag /\ last.follows = "invalidate"
    /\ last.computed
    /\ last.ret = BOTH
    /\ \E c \in CLIs : c # last.cli /\ cache.statuses[c] # NoEntry

\* C4: when get_status(c, use_cache=True) has just computed a status and written
\* it to the cache, a directly following get_status(c, use_cache=True) within
\* the TTL returns that status and does not call is_registered.
C4_CachedStatusIsReturned ==
    /\ (last.op = "get_status" /\ last.flag /\ last.computed) =>
          cache.statuses[last.cli].status = last.ret
    /\ (last.op = "get_status" /\ last.flag /\ last.follows = "get_status") =>
          /\ ~last.computed
          /\ ~Ran("list")
          /\ last.lookup = "valid"
          /\ last.ret = cache.statuses[last.cli].status

C4_Witness ==
    /\ last.op = "get_status" /\ last.flag /\ last.follows = "get_status"
    /\ ~last.computed
    /\ last.ret = REGISTERED
    /\ now - cache.statuses[last.cli].timestamp = TTL

\* C5: a cache entry whose timestamp is more than the TTL (300 seconds) in the
\* past is treated as absent: StatusCache.get_status returns absent for its key
\* and get_status(use_cache=True) recomputes the status from the real state.
C5_ExpiredEntryIsAbsent ==
    /\ \A c \in CLIs :
          (cache.file = "ok" /\ cache.statuses[c] # NoEntry
              /\ now - cache.statuses[c].timestamp > TTL)
          => cache_get_status(cache, c, now) = Absent
    /\ (last.op = "get_status" /\ last.lookup = "expired") =>
          /\ last.computed
          /\ SawRealState
          /\ last.ret = Classify(last.inst, last.reg)

C5_Witness ==
    /\ last.op = "get_status" /\ last.lookup = "expired"
    /\ last.computed
    /\ last.ret = BOTH

\* C6: get_status(cli, use_cache=True) never fails because of the cache: when
\* the cache file is missing or unparsable, or the entry holds a string that is
\* not one of the four statuses, it returns the status computed from the real
\* state.
C6_BadCacheDegradesToRecompute ==
    (last.op = "get_status" /\ last.lookup \in {"missing", "corrupt", "invalid"}) =>
        /\ ~last.raised
        /\ last.computed
        /\ SawRealState
        /\ last.ret \in MCPStatus
        /\ last.ret = Classify(last.inst, last.reg)

C6_Witness ==
    /\ last.op = "get_status" /\ last.lookup = "invalid"
    /\ last.computed
    /\ last.ret = INSTALLED

\* C7: for a unit whose runtime is uvx or npx, is_installed() returns true in
\* every reachable state, whether path is unset, an existing directory, or a
\* directory that does not exist.
C7_PackageAlwaysInstalled ==
    (last.op = "is_installed" /\ mcp.runtime \in PackageRuntimes) => last.ret

\* C8: for a unit whose runtime is uvx or npx, no install (with any force) and
\* no uninstall (with any remove_files) creates, deletes or clones a directory,
\* whatever path and url are set.
C8_PackageOwnsNoFiles ==
    [][(last'.op \in {"install", "uninstall"} /\ mcp.runtime \in PackageRuntimes)
          => (fs' = fs /\ last'.effects = NoEffects)]_vars

C8_Witness ==
    /\ last.op = "install" /\ last.flag
    /\ mcp.runtime \in PackageRuntimes
    /\ mcp.url
    /\ mcp.path = CustomDir
    /\ fs = Dirs

\* C9 as stated: when install(force=False) is called twice in a row, the second
\* call returns true, performs no clone and runs no setup script or command.
C9_SecondInstallIsNoOp ==
    (last.op = "install" /\ ~last.flag
        /\ last.follows \in {"install_ok", "install_failed"}) =>
        (last.ret /\ ~Ran("clone") /\ ~RanSetup)

\* C9 amended: when install(force=False) is called twice in a row and the first
\* call returned true, the second call returns true, performs no clone and runs
\* no setup script or command.
C9_SecondInstallAfterSuccessIsNoOp ==
    (last.op = "install" /\ ~last.flag /\ last.follows = "install_ok") =>
        (last.ret /\ ~last.raised /\ ~Ran("clone") /\ ~RanSetup)

C9_Witness ==
    /\ last.op = "install" /\ ~last.flag /\ last.follows = "install_ok"
    /\ mcp.runtime = "python"
    /\ mcp.url /\ mcp.path = PublicDir
    /\ mcp.setup_script /\ mcp.setup_commands > 0

\* C10 as stated: install() on any unit whose path and url are both unset
\* returns false and never invokes the clone command.
C10_NothingToInstallFails ==
    (last.op = "install" /\ mcp.path = NoPath /\ ~mcp.url) =>
        (~last.ret /\ ~Ran("clone"))

\* C10 amended: install() on any unit whose runtime is not uvx or npx and whose
\* path and url are both unset returns false and never invokes the clone
\* command.
C10_NothingToInstallFailsUnlessPackage ==
    (last.op = "install" /\ mcp.path = NoPath /\ ~mcp.url
        /\ mcp.runtime \notin PackageRuntimes) =>
        (~last.ret /\ ~last.raised /\ ~Ran("clone"))

C10_Witness ==
    /\ last.op = "install" /\ last.flag
    /\ mcp.path = NoPath /\ ~mcp.url
    /\ mcp.runtime = "binary"
    /\ fs = Dirs

\* the directory install clones into: the path, or the public directory named
\* after the last segment of the url when the path is unset
InstallTarget(m) == IF m.path # NoPath THEN m.path ELSE PublicDir

\* in a sequence of effects, one of kind a comes before one of kind b
Before(effects, a, b) ==
    \E i, j \in 1..Len(effects) :
        i < j /\ effects[i][1] = a /\ effects[j][1] = b

\* C11: install(force=True) on a non-package unit that has a url and whose
\* target directory (its path, or the public directory of the url when the path
\* is unset) already exists removes that directory and then runs git clone
\* into it.
C11_ForceReinstallRemovesThenClones ==
    [][(/\ last'.op = "install" /\ last'.flag
        /\ mcp.runtime \notin PackageRuntimes
        /\ mcp.url
        /\ InstallTarget(mcp) \in fs)
          => Before(last'.effects, "rmtree", "clone")]_vars

\* an uninstall(remove_files=True) step on a non-package unit that is installed
UninstallsInstalledUnit ==
    /\ last'.op = "uninstall" /\ last'.flag
    /\ mcp.runtime \notin PackageRuntimes
    /\ is_installed(mcp, fs).ret

\* C12 as stated: after uninstall(remove_files=True) returns true for a
\* non-package unit that was installed, the directory its path resolved to no
\* longer exists and its path is unset; uninstall returns false only when
\* deleting the directory raised an error, and in that case path is unchanged.
C12_UninstallRemovesDirectory ==
    [][/\ UninstallsInstalledUnit =>
            /\ last'.ret => (is_installed(mcp, fs).path \notin fs'
                             /\ mcp'.path = NoPath)
            /\ ~last'.ret => mcp'.path = mcp.path
       /\ (last'.op = "uninstall" /\ ~last'.ret) =>
            (last'.flag /\ last'.effects = <<Eff("rmtree")>> /\ fs' = fs)]_vars

\* C12 amended: after uninstall(remove_files=True) returns true for a
\* non-package unit that was installed, the directory its path resolved to no
\* longer exists and its path is unset; uninstall returns false only when
\* deleting the directory raised an error, and in that case path is not
\* cleared: it names the directory the unit was found in, which is the public
\* directory of the url when path was unset before the call.
C12_UninstallRemovesDirectoryOrKeepsFoundPath ==
    [][/\ UninstallsInstalledUnit =>
            /\ ~last'.raised
            /\ last'.ret => (is_installed(mcp, fs).path \notin fs'
                             /\ mcp'.path = NoPath)
            /\ ~last'.ret => (mcp'.path = is_installed(mcp, fs).path
                              /\ mcp'.path # NoPath)
       /\ (last'.op = "uninstall" /\ ~last'.ret) =>
            (last'.flag /\ last'.effects = <<Eff("rmtree")>> /\ fs' = fs)]_vars

C12_Witness ==
    /\ last.op = "uninstall" /\ last.flag /\ last.ret
    /\ Ran("rmtree")
    /\ mcp.runtime = "node"
    /\ mcp.path = NoPath
    /\ fs = {}

\* a step of the operation that returned true
Succeeded(op) == last'.op = op /\ last'.ret /\ ~last'.raised

\* the real status of the CLI goes from one status to another over the step
Moves(cli, from, to) == RealStatus(cli) = from => RealStatus(cli)' = to
Keeps(cli) == RealStatus(cli)' = RealStatus(cli)

\* register(cli) and unregister(cli) over a successful step
RegisterMoves(c) ==
    /\ (Succeeded("register") /\ last'.cli = c) =>
            /\ Moves(c, INSTALLED, BOTH)
            /\ Moves(c, NOT_INSTALLED, REGISTERED)
    /\ (Succeeded("unregister") /\ last'.cli = c) =>
            /\ Moves(c, BOTH, INSTALLED)
            /\ Moves(c, REGISTERED, NOT_INSTALLED)

\* C13 as stated: per unit and CLI, with the real status read before and after
\* a successful operation: install changes NOT_INSTALLED to INSTALLED and leaves
\* every other status unchanged; register changes INSTALLED to BOTH and
\* NOT_INSTALLED to REGISTERED; unregister changes BOTH to INSTALLED and
\* REGISTERED to NOT_INSTALLED; uninstall changes INSTALLED to NOT_INSTALLED and
\* BOTH to REGISTERED.
C13_StatusTransitions ==
    [][\A c \in CLIs :
        /\ Succeeded("install") =>
              IF RealStatus(c) = NOT_INSTALLED
              THEN RealStatus(c)' = INSTALLED
              ELSE Keeps(c)
        /\ RegisterMoves(c)
        /\ Succeeded("uninstall") =>
              /\ Moves(c, INSTALLED, NOT_INSTALLED)
              /\ Moves(c, BOTH, REGISTERED)]_vars

\* the unit's url names a clone in the public directory that is not the
\* directory its path names
HasOtherClone == mcp.url /\ mcp.path = CustomDir /\ PublicDir \in fs

\* C13 amended: per unit and CLI, with the real status read before and after a
\* successful operation: register changes INSTALLED to BOTH and NOT_INSTALLED
\* to REGISTERED; unregister changes BOTH to INSTALLED and REGISTERED to
\* NOT_INSTALLED; on a package unit install and uninstall leave the status
\* unchanged; on any other unit install changes NOT_INSTALLED to INSTALLED and
\* REGISTERED to BOTH and leaves INSTALLED and BOTH unchanged, uninstall with
\* remove_files=False leaves the status unchanged, and uninstall with
\* remove_files=True changes INSTALLED to NOT_INSTALLED and BOTH to REGISTERED
\* unless the url names a clone in the public directory besides the path.
C13_StatusTransitionsByKind ==
    [][\A c \in CLIs :
        /\ RegisterMoves(c)
        /\ (Succeeded("install") /\ mcp.runtime \in PackageRuntimes) => Keeps(c)
        /\ (Succeeded("uninstall") /\ mcp.runtime \in PackageRuntimes) => Keeps(c)
        /\ (Succeeded("install") /\ mcp.runtime \notin PackageRuntimes) =>
              /\ Moves(c, NOT_INSTALLED, INSTALLED)
              /\ Moves(c, REGISTERED, BOTH)
              /\ RealStatus(c) \in {INSTALLED, BOTH} => Keeps(c)
        /\ (Succeeded("uninstall") /\ mcp.runtime \notin PackageRuntimes) =>
              IF last'.flag /\ ~HasOtherClone
              THEN /\ Moves(c, INSTALLED, NOT_INSTALLED)
                   /\ Moves(c, BOTH, REGISTERED)
                   /\ RealStatus(c) \in {NOT_INSTALLED, REGISTERED} => Keeps(c)
              ELSE Keeps(c)]_vars

C13_Witness ==
    /\ last.op = "install" /\ last.ret /\ ~last.raised
    /\ Ran("clone")
    /\ mcp.runtime = "python"
    /\ RealStatus("claude") = BOTH
    /\ RealStatus("gemini") = INSTALLED

\* C14: register(cli) when the CLI binary is absent returns false, runs no
\* subprocess (no list, add or remove command) and leaves the status cache
\* unchanged.
C14_RegisterWithoutCli ==
    [][(last'.op = "register" /\ ~last'.present) =>
          /\ ~last'.ret /\ ~last'.raised
          /\ last'.effects = NoEffects
          /\ cache' = cache
          /\ registered' = registered]_vars

C14_Witness ==
    /\ last.op = "register" /\ ~last.present
    /\ ~last.ret
    /\ cache.file = "ok"
    /\ cache.statuses[last.cli] # NoEntry
    /\ registered[last.cli]

\* how many commands of the kind a sequence of effects holds
CountOf(effects, kind) ==
    Cardinality({i \in 1..Len(effects) : effects[i][1] = kind})

\* add, then remove, then add again
AddRemoveAdd(effects) ==
    \E i, j, k \in 1..Len(effects) :
        /\ i < j /\ j < k
        /\ effects[i][1] = "add" /\ effects[j][1] = "remove" /\ effects[k][1] = "add"

\* register(c) runs its add command for a name the CLI already holds: the list
\* command did not show the name, and nothing else is wrong with the add
AddMeetsExistingName(c, env) ==
    /\ env.present
    /\ registered[c]
    /\ ~is_registered(registered, c, env.list)
    /\ env.add = "ok"
    /\ Ran("add")'

\* C15: when the add command fails because the name already exists at the CLI,
\* register runs the CLI's remove command for the clean name and retries the add
\* command exactly once, returning true if the retry succeeds; it never runs
\* the add command more than twice.
C15_AddRetriesAfterRemove ==
    [][\A c \in CLIs : \A env \in RegisterEnvs(mcp, registered, c) :
          /\ (last'.op = "register" /\ Register(c, env)
                /\ AddMeetsExistingName(c, env)) =>
                /\ AddRemoveAdd(last'.effects)
                /\ CountOf(last'.effects, "add") = 2
                /\ env.remove = "ok" => last'.ret
          /\ (last'.op = "register" /\ Register(c, env)) =>
                CountOf(last'.effects, "add") <= 2]_vars

\* C16: unregister(cli) returns false without running any command when the CLI
\* binary is absent; it returns false and leaves the status cache unchanged
\* when the remove command exits non-zero or times out; it returns true and
\* removes the unit's cache entry for that CLI when the remove command succeeds.
C16_UnregisterOutcomes ==
    [][\A c \in CLIs : \A env \in UnregisterEnvs :
          (last'.op = "unregister" /\ Unregister(c, env)) =>
              LET out == RemoveResult(registered, c, env.remove)
              IN  /\ ~last'.raised
                  /\ ~env.present =>
                        (~last'.ret /\ last'.effects = NoEffects /\ cache' = cache)
                  /\ (env.present /\ out # "ok") =>
                        (~last'.ret /\ cache' = cache)
                  /\ (env.present /\ out = "ok") =>
                        /\ last'.ret
                        /\ read_cache(cache')[c] = NoEntry
                        /\ \A d \in CLIs \ {c} :
                              read_cache(cache')[d] = read_cache(cache)[d]]_vars

C16_Witness ==
    /\ last.op = "unregister" /\ last.present /\ last.ret
    /\ last.lookup = "valid"
    /\ cache.file = "ok"
    /\ cache.statuses[last.cli] = NoEntry
    /\ \E d \in CLIs : cache.statuses[d] # NoEntry

\* C17: get_mcp(name) returns the entry of the installed (local) registry
\* whenever the name is in it, otherwise the entry of the public registry when
\* the name is there, and None when neither registry has the name.
C17_LocalShadowsPublic ==
    call.op = "get_mcp" =>
        LET local == Load(manager, "installed", FALSE).ret
            public == Load(manager, "public", FALSE).ret
        IN  /\ ~call.raised
            /\ call.name \in DOMAIN local =>
                  (call.found /\ call.from = "installed" /\ call.mcp = local[call.name])
            /\ (call.name \notin DOMAIN local /\ call.name \in DOMAIN public) =>
                  (call.found /\ call.from = "public" /\ call.mcp = public[call.name])
            /\ (call.name \notin DOMAIN local /\ call.name \notin DOMAIN public) =>
                  ~call.found

C17_Witness ==
    /\ call.op = "get_mcp" /\ call.found
    /\ call.from = "installed"
    /\ call.mcp.description = "installed"
    /\ manager.mcps_cache["public"].set
    /\ call.name \in DOMAIN manager.mcps_cache["public"].mcps

\* an entry of a registry file that describes a unit: null, or a mapping whose
\* keys are all fields of the unit
WellFormed(e) == e.kind = "none" \/ (e.kind = "dict" /\ DOMAIN e.info \subseteq Fields)

\* C18: load_installed_mcps and load_public_mcps never fail: a missing, empty or
\* null document yields an empty map, and a document with some malformed
\* entries yields exactly the well-formed entries, each malformed entry being
\* skipped without affecting the loading of the others.
C18_LoadNeverFails ==
    call.op = "load" =>
        /\ ~call.raised
        /\ call.force =>
              LET doc == manager.config[call.coll]
              IN  /\ doc.kind # "map" => call.ret = EmptyMap
                  /\ doc.kind = "map" =>
                        /\ DOMAIN call.ret = {n \in DOMAIN doc.mcps : WellFormed(doc.mcps[n])}
                        /\ \A n \in DOMAIN call.ret :
                              /\ call.ret[n].name = n
                              /\ \A f \in DOMAIN doc.mcps[n].info \ {"runtime"} :
                                    call.ret[n][f] = doc.mcps[n].info[f]

C18_Witness ==
    /\ call.op = "load" /\ call.force
    /\ manager.config[call.coll].kind = "map"
    /\ DOMAIN manager.config[call.coll].mcps = Names
    /\ manager.config[call.coll].mcps["b"] = ScalarEntry
    /\ DOMAIN call.ret = {"a"}

\* the path a unit has after a save and a load, against the one it had
PathKept(p, q) ==
    IF p = NoPathStr
    THEN q = NoPathStr
    ELSE /\ q # NoPathStr
         /\ resolve_path(q) = resolve_path(p)
         /\ (p.form = "abs" /\ p.dir \in UnderProjectRoot) => q = RelPath(p.dir)
         /\ p.dir \notin UnderProjectRoot => q = p

RoundTrip(saved, loaded) ==
    /\ DOMAIN loaded = DOMAIN saved
    /\ \A n \in DOMAIN saved :
          /\ \A f \in Fields \ {"path"} : loaded[n][f] = saved[n][f]
          /\ PathKept(saved[n].path, loaded[n].path)

Did(kind) == CountOf(call.steps, kind) > 0
RegistrationCommands == {"list", "prompt", "remove", "add"}

\* C20: in install_and_register(name, cli, force) the unit's register is called
\* only after its install has returned true; when install returns false or the
\* name is unknown, install_and_register returns false and no registration
\* command is run.
C20_RegisterOnlyAfterInstall ==
    call.op = "install_and_register" =>
        /\ Did("register") =>
              /\ Before(call.steps, "install_true", "register")
              /\ ~Did("install_false")
              /\ CountOf(call.steps, "register") = 1
        /\ (Did("install_false") \/ ~get_mcp(manager, call.name).found) =>
              /\ ~call.ok
              /\ ~Did("register")
              /\ \A k \in RegistrationCommands : ~Did(k)
        /\ ~get_mcp(manager, call.name).found => call.steps = <<>>
        /\ call.ok => (Did("install_true") /\ Did("register"))

C20_Witness ==
    /\ call.op = "install_and_register"
    /\ Did("clone") /\ Did("install_false")
    /\ ~call.ok
    /\ get_mcp(manager, call.name).found
    /\ registered = [c \in CLIs |-> FALSE]

\* the first build output file and the first Python entry file of a candidate
OutputOf(i) == FirstExisting(build_outputs, tools[i].files)
EntryOf(i) == FirstExisting(entry_points, tools[i].files)
Produced(i) == i \in DOMAIN call.ret

\* C22 as stated: discover_tool_mcps produces a unit for a candidate
\* subdirectory iff it has a discoverable entry point for its inferred runtime:
\* with a package manifest and a build output file (build/index.js,
\* dist/index.js or index.js) a Node unit whose server_args name that file,
\* with a package manifest and no build output file no unit, and without a
\* manifest a Python unit iff one of the conventional Python entry files exists.
C22_DiscoversByInferredRuntime ==
    call.op = "discover_tool_mcps" =>
        \A i \in Candidates(tools, call.force) :
            IF Manifest \in tools[i].files
            THEN IF OutputOf(i) # NoFile
                 THEN /\ Produced(i)
                      /\ call.ret[i].runtime = "node"
                      /\ call.ret[i].server_args = <<OutputOf(i)>>
                 ELSE ~Produced(i)
            ELSE /\ Produced(i) <=> EntryOf(i) # NoFile
                 /\ Produced(i) => call.ret[i].runtime = "python"

\* C29 as stated: get_status(cli, use_cache=False) writes the status it
\* computed back to the cache under the key "<name>:<cli>", so that a following
\* get_status(cli, use_cache=True) within the TTL returns that value without
\* recomputing.
C29_UncachedStatusIsWrittenBack ==
    (last.op = "get_status" /\ ~last.flag) =>
        cache_get_status(cache, last.cli, now) = last.ret

\* the setup commands of the last call, by index: the command ran, and the
\* warning that was printed for it
CommandRan(i) == \E k \in 1..Len(last.effects) : last.effects[k] = <<"setup_command", i>>
Warned(outcome, i) ==
    \E k \in 1..Len(last.effects) : last.effects[k] = <<Warning(outcome), i>>

\* the setup commands of the last call ran in their configured order, none
\* twice and none before an earlier one
RanInOrder ==
    \A j, k \in 1..Len(last.effects) :
        (j < k /\ last.effects[j][1] = "setup_command"
               /\ last.effects[k][1] = "setup_command")
            => last.effects[j][2] < last.effects[k][2]

\* the last call is an install whose setup went into the loop over the setup
\* commands
SetupLoopRan == last.op = "install" /\ CommandRan(1)

\* a setup command that exits non-zero is followed by the next one
FailureGoesOn ==
    \A i \in 1..(mcp.setup_commands - 1) : Warned("fail", i) => CommandRan(i + 1)

Stays(m) == m.path = NoPathStr \/ resolve_path(m.path).dir \in fs

\* the local collection a sync must leave, from the map it loaded and the disk
SyncExpected(loaded) ==
    LET kept == {n \in DOMAIN loaded : Stays(loaded[n])}
        new == {n \in Names : PublicDirOf(n) \in fs} \ DOMAIN loaded
    IN  [n \in kept \cup new |-> IF n \in kept THEN loaded[n] ELSE Scanned(n)]

\* a map of units with every path resolved against PROJECT_ROOT
Resolved(mcps) ==
    [n \in DOMAIN mcps |->
        IF mcps[n].path = NoPathStr THEN mcps[n]
        ELSE [mcps[n] EXCEPT !.path = resolve_path(@)]]

\* the map a new process loads from the installed registry file
Persisted == load_mcps(manager.config["installed"], NoCache, TRUE).ret

\* C21 as stated: sync_installed_with_filesystem leaves the local collection,
\* in memory and persisted, equal to: every previous entry whose path is unset
\* or whose path (resolved against the project root) exists, unchanged, plus
\* one new entry for each scanned directory name that was not previously
\* present; an existing entry is never overwritten and an entry whose directory
\* exists is never dropped.
C21_SyncKeepsExistingAddsScanned ==
    call.op = "sync" =>
        /\ manager.mcps_cache["installed"] = Cached(SyncExpected(call.ret))
        /\ Resolved(Persisted) = Resolved(SyncExpected(call.ret))

\* a command of pmcp ended
CommandEnded == call.op \in {"pmcp_install", "pmcp_uninstall", "pmcp_info"}

\* C27: the exit code of a command is non-zero if and only if the command
\* reported a failure: an unknown name, a failed install, a failed
\* registration, a failed unregistration or a failed removal of the files
C27_ExitCodeTellsFailure ==
    CommandEnded => (call.exit # 0 <=> call.failures # {})

\* install_skill_and_mcps has returned after it copied the skill's files
SkillInstalled == skill.ended /\ skill.found /\ skill.copied

InstallCalled(n) == n \in Range(skill.installCalls)
RegisterCalled(n) == n \in Range(skill.registerCalls)

\* a required unit whose status was Both when the call began got no call of
\* install and no call of register
BothIsLeftAlone ==
    \A n \in Range(skill.required) :
        skill.statuses[n] = BOTH => ~InstallCalled(n) /\ ~RegisterCalled(n)

\* every other required unit was handed to an installation
OthersAreAttempted ==
    \A n \in Range(skill.required) :
        skill.statuses[n] # BOTH => n \in skill.attempts

\* C23: install_skill_and_mcps attempts installation for exactly the required
\* units that are not both installed and registered when it is called: a unit
\* whose status is Both gets neither an install nor a register call, every
\* other required unit gets an install attempt
C23_AttemptsExactlyTheUnitsNotBoth ==
    SkillInstalled => BothIsLeftAlone /\ OthersAreAttempted

\* the status of a required unit as the disk and the CLI have it now; a name
\* in neither registry has none
StatusNow(n) ==
    IF n \in Names /\ get_mcp(Fresh(manager), n).found
    THEN StatusOf(get_mcp(Fresh(manager), n).mcp, skill.world[n])
    ELSE Unknown

\* C28: install_skill_and_mcps returns true only if the skill's files were
\* copied and every required unit is both installed and registered when it
\* returns; a failed install or registration of a required unit makes it
\* return false
C28_TrueOnlyWhenEveryUnitIsBoth ==
    (skill.ended /\ skill.ret) =>
        /\ skill.copied
        /\ \A n \in Range(skill.required) : StatusNow(n) = BOTH
        /\ skill.failures = {}

\* the parallel installation of two or more units has ended
ParallelEnded == skill.ended /\ Len(skill.needs) > 1

\* how often the body of install ran on a unit
TimesRan(n) == Cardinality({i \in 1..Len(skill.installRan) : skill.installRan[i] = n})

\* the units of the batch that are in a registry
KnownNeeds == Range(skill.needs) \cap Names

\* C25: in the parallel installation of two or more units that need work the
\* install of each unit is executed once, and every unit whose install
\* succeeded is reported as installed and is then registered
C25_ParallelInstallRunsEachUnitOnce ==
    ParallelEnded =>
        \A n \in KnownNeeds :
            /\ TimesRan(n) = 1
            /\ skill.results[n] => RegisterCalled(n)

\* the install phase of a unit of the batch has finished: its worker has
\* returned and the main thread has its result
InstallPhaseFinished(n) == skill.worker[n] = "collected"

\* phase 2, the loop that registers, has begun
RegistrationBegan == skill.pc = "phase2" \/ (ParallelEnded /\ skill.idx > 0)

\* C24: in the parallel installation no registration starts before the
\* install phase of every unit of the batch has finished, whatever the order
\* in which the workers run and return
C24_RegistrationWaitsForEveryInstall ==
    /\ RegistrationBegan => \A n \in Range(skill.needs) : InstallPhaseFinished(n)
    /\ (skill.pc = "parallel" /\ \E n \in Range(skill.needs) : ~InstallPhaseFinished(n))
          => skill.registerCalls = <<>> /\ skill.idx = 0

\* C24 witness: phase 2 is at its second name after workers that returned in
\* another order than they were submitted
C24_Witness ==
    /\ skill.pc = "phase2"
    /\ skill.idx = 2
    /\ Len(skill.needs) = 3
    /\ skill.collected # skill.needs
    /\ \A n \in Range(skill.needs) : InstallPhaseFinished(n)

\* the names of the first k of a list whose install returned success and
\* that are in a registry, in the order of the list
RECURSIVE InstalledInOrder(_, _)
InstalledInOrder(names, k) ==
    IF k = 0 THEN <<>>
    ELSE InstalledInOrder(names, k - 1)
         \o (IF skill.results[names[k]] /\ names[k] \in Names
             THEN <<names[k]>> ELSE <<>>)

\* the names phase 2 has gone through
TurnsDone == IF skill.pc = "phase2" THEN skill.idx - 1 ELSE Len(skill.needs)

C31_ScriptTimeoutFailsInstall ==
    (last.op = "install" /\ Ran("setup_script_timed_out")) => ~last.ret

\* C32: when register(cli) finds the unit already registered and the update
\* is declined, it issues neither a remove nor an add command and the
\* registration at the CLI is unchanged; when the update is confirmed, the
\* remove command is issued before the add command
C32_DeclineKeepsConfirmRemovesFirst ==
    [][(last'.op = "register" /\ Ran("prompt")') =>
          /\ last'.answer = "n" =>
                /\ CountOf(last'.effects, "remove") = 0
                /\ CountOf(last'.effects, "add") = 0
                /\ registered' = registered
                /\ last'.ret
          /\ last'.answer = "y" =>
                /\ Ran("remove")'
                /\ Ran("add")' => /\ Before(last'.effects, "remove", "add")
                                   /\ ~Before(last'.effects, "add", "remove")]_vars

\* C32 witness: a confirmed update ran remove and then add
C32_Witness ==
    /\ last.op = "register"
    /\ last.answer = "y"
    /\ Before(last.effects, "prompt", "remove")
    /\ Before(last.effects, "remove", "add")
    /\ last.ret

\* C34: whenever register(cli) returns false, the names registered at the
\* CLI are the same as before the call: a failed registration never removes a
\* registration that existed before it
C34_FailedRegisterKeepsRegistrations ==
    [][(last'.op = "register" /\ ~last'.ret /\ ~last'.raised) =>
          registered' = registered]_vars


SetupTimedOutAfterClone ==
    /\ last.op = "install"
    /\ Ran("clone")
    /\ Ran("setup_script_timed_out") \/ Ran("setup_command_timed_out")

\* C35: a non-package unit whose setup timed out after a successful clone is
\* not reported installed by a later install(force=false) unless that call runs
\* the setup again: install returns true only when the setup has completed
C35_InstallTrueOnlyAfterSetupCompleted ==
    [][(/\ SetupTimedOutAfterClone
        /\ ~last.ret
        /\ mcp.runtime \notin PackageRuntimes
        /\ last'.op = "install" /\ ~last'.flag /\ last'.ret) => RanSetup']_vars

\* C36: get_status(use_cache=true) stores a status in the cache file only
\* when its registration check obtained the output of the list command: when
\* the list command timed out or the binary is missing the cache file is left
\* as it was
C36_NoCacheWriteWithoutListOutput ==
    [][(/\ last'.op = "get_status" /\ last'.flag /\ last'.computed
        /\ last'.list \in {"timeout", "notfound"}) => cache' = cache]_vars

\* C37: is_registered(cli) is true only if the list of the CLI has a server
\* whose name equals the clean name of the unit: a server whose name merely
\* contains the clean name never makes it true
C37_RegisteredOnlyByExactName ==
    (last.op = "is_registered" /\ last.ret) =>
        \E i \in DOMAIN last.entries : last.entries[i] = get_clean_name(last.name)

\* the name is in the installed registry and in the public registry, as the
\* manager loads them
InBothRegistries(n) ==
    /\ n \in DOMAIN Load(manager, "installed", FALSE).ret
    /\ n \in DOMAIN Load(manager, "public", FALSE).ret

\* C38: for a name that is in both registries, list_mcps() and search_mcps
\* return for that name the unit get_mcp returns, the installed entry
C38_ListAndSearchAgreeWithGetMcp ==
    (call.op \in {"list_mcps", "search_mcps"} /\ call.coll = "") =>
        \A n \in DOMAIN call.ret :
            InBothRegistries(n) => call.ret[n] = get_mcp(manager, n).mcp

\* C39: add_public_mcp, remove_public_mcp and update_public_mcp of one name
\* leave every other entry of the public registry file as it was, the entries
\* that the load skipped as malformed included
C39_OtherEntriesOfTheFileAreKept ==
    [][call'.op \in {"add_public_mcp", "remove_public_mcp", "update_public_mcp"} =>
          \A k \in DOMAIN manager.config["public"].mcps \ {call'.name} :
              /\ k \in DOMAIN manager'.config["public"].mcps
              /\ manager'.config["public"].mcps[k] = manager.config["public"].mcps[k]]_vars

\* the directory of the unit of the name, as is_installed finds it
DirectoryOf(n) == is_installed(UnitOf(manager, n), fs).path

\* C40: a unit for which install_mcp_cmd returned true can afterwards be
\* removed with uninstall_mcp_cmd(remove_files=true): the command returns true
\* and the directory of the unit is gone, whether the install cloned it or
\* found it on disk; a removal of the directory that itself failed is left
\* aside
C40_InstalledUnitCanBeRemoved ==
    [][(/\ call.op = "pmcp_install" /\ call.ok /\ ~call.raised
        /\ call'.op = "pmcp_uninstall" /\ call'.name = call.name /\ call'.force)
       => \/ call'.ok /\ DirectoryOf(call.name) \notin fs'
          \/ \E i \in 1..Len(call'.steps) : call'.steps[i][1] = "rmtree"]_vars

====
